---- MODULE Spec2Model ----
\* A model of rx::StateManager11 (ANGLE's D3D11 render-state cache):
\* the dirty-bit tracker (syncState and the invalidate* methods), the direct
\* low-level setters, and the per-draw orchestrator updateState with its
\* synchronizers.  The device context is modelled as the set of bindings it
\* holds; every device call is recorded in dev.calls.
EXTENDS Integers, Sequences, FiniteSets, TLC

\* ------------------------------------------------------------------ bounds
\* Abstract values of one piece of fixed-function state: 0..MaxVal.
MaxVal == 1
\* Environment operations (notifications, setters, collaborator changes) in a run.
MaxOps == 2
\* updateState calls in a run.
MaxPasses == 2
\* Operations and updateState calls together in a run.
MaxSteps == 3
\* caps.maxTextureImageUnits and caps.maxVertexTextureImageUnits.
MaxTextureUnits == 2
\* gl::MAX_VERTEX_ATTRIBS and caps.maxVertexAttributes.
MaxVertexAttribs == 2
\* Uniform blocks per stage (the length of the program's uniform-buffer cache).
MaxUniformBlocks == 3
\* Largest first-vertex draw parameter.
MaxFirstVertex == 1
\* Calls of the direct setters in a run.
MaxCalls == 3
\* Query objects.
MaxQueries == 3
\* Calls of updateBuffer in a run of the shader constants, and the number of
\* consecutive calls of a stage whose outcome is kept.
MaxSequenceCalls == 4
SequenceLength == 3
\* Longest list of sorted attributes handed to the feature-level 9_3 swap.
MaxSortedAttribs == 3
\* caps.maxViewportWidth and caps.maxViewportHeight.
MaxViewportBounds == 4
\* Calls in a run of a method whose result depends on its inputs alone.
MaxSingleCalls == 1
\* Calls in a run of the texture setters of one stage.
MaxTextureCalls == 4

Val == 0..MaxVal

\* ------------------------------------------------------- program constants
\* ResourceSerial(0): the serial of "no object".
kEmptySerial == 0
\* A default-constructed ResourceSerial: equal to no object's serial.
kDirtySerial == -1
\* d3d11::RESERVED_CONSTANT_BUFFER_SLOT_DEFAULT_UNIFORM_BLOCK
SLOT_DEFAULT_UNIFORM_BLOCK == 0
\* d3d11::RESERVED_CONSTANT_BUFFER_SLOT_DRIVER
SLOT_DRIVER == 1
\* Renderer11::getReservedVertexUniformBuffers / getReservedFragmentUniformBuffers
ReservedUniformBuffers == 2
\* INT_MAX, and std::numeric_limits<UINT>::max() written as the int of the
\* same 32 bits
INT_MAX == 2147483647
UINT_MAX == -1

\* ------------------------------------------------------------ state groups
\* DirtyBitType, in declaration order; a bit set is iterated lowest bit first.
GroupOrder ==
    << "RENDER_TARGET", "VIEWPORT_STATE", "SCISSOR_STATE", "RASTERIZER_STATE",
       "BLEND_STATE", "DEPTH_STENCIL_STATE", "TEXTURE_AND_SAMPLER_STATE",
       "PROGRAM_UNIFORMS", "DRIVER_UNIFORMS", "PROGRAM_UNIFORM_BUFFERS",
       "SHADERS", "CURRENT_VALUE_ATTRIBS", "TRANSFORM_FEEDBACK",
       "VERTEX_BUFFERS_AND_INPUT_LAYOUT", "PRIMITIVE_TOPOLOGY" >>

Groups == { GroupOrder[i] : i \in 1..Len(GroupOrder) }

GroupIndex(g) == CHOOSE i \in 1..Len(GroupOrder) : GroupOrder[i] = g

\* --------------------------------------------- fine-grained notifications
\* The gl::State dirty bits whose syncState case compares the logical value
\* with the cached one.  Each kind stands for the fields its case compares.
BlendKinds ==
    { "BLEND_EQUATIONS", "BLEND_FUNCS", "BLEND_ENABLED",
      "SAMPLE_ALPHA_TO_COVERAGE_ENABLED", "DITHER_ENABLED", "COLOR_MASK",
      "BLEND_COLOR" }

DepthStencilKinds ==
    { "DEPTH_MASK", "DEPTH_TEST_ENABLED", "DEPTH_FUNC", "STENCIL_TEST_ENABLED",
      "STENCIL_FUNCS_FRONT", "STENCIL_FUNCS_BACK", "STENCIL_WRITEMASK_FRONT",
      "STENCIL_WRITEMASK_BACK", "STENCIL_OPS_FRONT", "STENCIL_OPS_BACK" }

RasterKinds ==
    { "CULL_FACE_ENABLED", "CULL_FACE", "FRONT_FACE",
      "POLYGON_OFFSET_FILL_ENABLED", "POLYGON_OFFSET",
      "RASTERIZER_DISCARD_ENABLED" }

ScissorKinds == { "SCISSOR", "SCISSOR_TEST_ENABLED" }

ViewportKinds == { "DEPTH_RANGE", "VIEWPORT" }

FFKinds ==
    BlendKinds \cup DepthStencilKinds \cup RasterKinds \cup ScissorKinds
        \cup ViewportKinds

\* The gl::State dirty bits whose syncState case invalidates unconditionally.
BindingKinds ==
    { "DRAW_FRAMEBUFFER_BINDING", "VERTEX_ARRAY_BINDING",
      "UNIFORM_BUFFER_BINDINGS", "TEXTURE_BINDINGS", "SAMPLER_BINDINGS",
      "TRANSFORM_FEEDBACK_BINDING", "PROGRAM_EXECUTABLE", "CURRENT_VALUES" }

Stages == { "Vertex", "Fragment" }

TextureSlots == 0..(MaxTextureUnits - 1)

AttribSlots == 0..(MaxVertexAttribs - 1)

CBSlots == 0..(ReservedUniformBuffers + MaxUniformBlocks - 1)

DrawModes == { "GL_TRIANGLES", "GL_POINTS" }

\* The collaborator calls of an updateState pass that can return an error
\* (the ANGLE_TRY sites the model lets fail).
FailPoints ==
    { "generateSwizzles", "applyIndexBuffer", "getRasterizerState",
      "getBlendState", "getDepthStencilState",
      "triggerDrawCallProgramRecompilation" }

\* ------------------------------------------- collaborators (static tables)
\* The collaborators of StateManager11 (gl::State, ProgramD3D, Framebuffer11,
\* VertexArray11, TextureStorage11, Renderer11) are not part of the file; the
\* tables below fix one small population of objects for them.
Programs == { 1, 2 }

Framebuffers == { 0, 1 }

VertexArrays == { 1, 2 }

\* Textures 1..MaxTextureUnits; texture 0 stands for "no complete texture".
Textures == 1..MaxTextureUnits

\* Renderer11::getIncompleteTexture
IncompleteTexture == MaxTextureUnits + 1

\* Uniform-buffer objects; 0 stands for "no buffer bound at the binding".
UniformBufferObjects == 0..2

\* The query types whose active query onMakeCurrent resumes, in array order.
QueryTypes ==
    << "GL_ANY_SAMPLES_PASSED", "GL_ANY_SAMPLES_PASSED_CONSERVATIVE",
       "GL_TRANSFORM_FEEDBACK_PRIMITIVES_WRITTEN", "GL_TIME_ELAPSED_EXT",
       "GL_COMMANDS_COMPLETED_CHROMIUM" >>

TrackedQueryTypes == { QueryTypes[i] : i \in DOMAIN QueryTypes }

\* Query11 objects; query 0 stands for nullptr.  gl::Query::getType: the
\* queries are of the first, the third and the fifth type.
Queries == 1..MaxQueries

QueryTypeOf(q) == QueryTypes[q + q - 1]

\* gl::State::getActiveQuery of a context, per type: the active query of a
\* type is a query of that type or none.
ContextQueries ==
    { f \in [ TrackedQueryTypes -> { 0 } \cup Queries ] :
        \A t \in TrackedQueryTypes : f[t] # 0 => QueryTypeOf(f[t]) = t }

\* ProgramD3D::getUsedSamplerRange
UsedSamplerRange(program, stage) ==
    IF stage = "Vertex" THEN program - 1 ELSE program

\* ProgramD3D::getSamplerMapping: sampler i reads texture unit i.
SamplerMapping(program, stage, samplerIndex) == samplerIndex

\* ProgramD3D::usesPointSize
UsesPointSize(program) == program = 2

\* gl::Program::getActiveAttribLocationsMask
ActiveAttribLocationsMask(program) ==
    { i \in AttribSlots : i < program }

\* ConstantBufferObserver after reset(): per stage and block index the
\* observed buffer, 0 for a binding that observes nothing.
NoObservedBuffers == [ s \in Stages |-> [ i \in 0..(MaxUniformBlocks - 1) |-> 0 ] ]

\* ProgramD3D::get{Vertex,Fragment}UniformBufferCache after
\* updateUniformBufferCache: per block index the binding point, or -1.
UniformBufferCache(program, stage) ==
    [ b \in 1..MaxUniformBlocks |-> IF program = 2 /\ b \in { 1, 3 } THEN 0 ELSE -1 ]

\* ShaderExecutable11::get{Vertex,Pixel,Geometry,StreamOut}Shader()->getSerial()
VertexShaderSerial(program) == 10 + program

PixelShaderSerial(program) == 20 + program

GeometryShaderSerial(program, mode) ==
    IF mode = "GL_POINTS" /\ UsesPointSize(program) THEN 30 + program ELSE 0

StreamOutShaderSerial(program) == 40 + program

\* UniformStorage11::getConstantBuffer()->getSerial()
UniformStorageSerial(program, stage) ==
    IF stage = "Vertex" THEN 50 + program ELSE 60 + program

\* mDriverConstantBuffer{VS,PS}.getSerial() once allocated
DriverConstantBufferSerial(stage) == IF stage = "Vertex" THEN 71 ELSE 72

\* Buffer11::getConstantBufferRange: the d3d11 buffer and its constant range.
\* The serial of a constant buffer owned by a helper of the renderer.
HelperBufferSerial == 90

ConstantBufferSerial(ubo) == 80 + ubo

UniformBufferOffset(ubo) == IF ubo = 2 THEN 16 ELSE 0

UniformBufferSize(ubo) == IF ubo = 2 THEN 16 ELSE 0

FirstConstant(ubo) == UniformBufferOffset(ubo) \div 16

NumConstants(ubo) == UniformBufferSize(ubo) \div 16

\* TextureStorage11::getSRVForSampler: the native view of a texture, its
\* resource, and the address of the d3d11::SharedSRV wrapper that holds it.
NativeSRV(texture) == texture

\* Views that the callers of the direct setters pass (Blit11, Clear11, image
\* units): views of a part of the resource of texture 1, a 2D texture, and of
\* texture 2, a cube map.
DirectViews == 11..15

\* The resource and the D3D11_SHADER_RESOURCE_VIEW_DESC of a direct view.
DirectViewTable(view) ==
    CASE view = 11 -> [ resource |-> 101, ViewDimension |-> "TEXTURE2D",
                        MostDetailedMip |-> 0, MipLevels |-> 1,
                        FirstArraySlice |-> 0, ArraySize |-> 0 ]
      [] view = 12 -> [ resource |-> 101, ViewDimension |-> "TEXTURE2D",
                        MostDetailedMip |-> 1, MipLevels |-> 1,
                        FirstArraySlice |-> 0, ArraySize |-> 0 ]
      [] view = 13 -> [ resource |-> 102, ViewDimension |-> "TEXTURECUBE",
                        MostDetailedMip |-> 1, MipLevels |-> 1,
                        FirstArraySlice |-> 0, ArraySize |-> 0 ]
      [] view = 14 -> [ resource |-> 102, ViewDimension |-> "TEXTURE2DARRAY",
                        MostDetailedMip |-> 0, MipLevels |-> 1,
                        FirstArraySlice |-> 1, ArraySize |-> 1 ]
      [] view = 15 -> [ resource |-> 103, ViewDimension |-> "TEXTURE3D",
                        MostDetailedMip |-> 1, MipLevels |-> UINT_MAX,
                        FirstArraySlice |-> 0, ArraySize |-> 0 ]

\* Render-target and depth-stencil views of the resources of textures 1 and 2.
RenderTargetViews == { 321, 322 }

\* GetViewResource
ViewResource(view) ==
    IF view \in DirectViews THEN DirectViewTable(view).resource
    ELSE IF view \in RenderTargetViews THEN view - 220
    ELSE 100 + view

\* view->GetDesc: the view of a texture for sampling is a 2D view of every level.
ViewDesc(view) ==
    IF view \in DirectViews
    THEN DirectViewTable(view)
    ELSE [ resource |-> 100 + view, ViewDimension |-> "TEXTURE2D",
           MostDetailedMip |-> 0, MipLevels |-> UINT_MAX,
           FirstArraySlice |-> 0, ArraySize |-> 0 ]

WrapperAddress(texture) == 200 + texture

\* gl::Texture::getSamplerState / gl::Sampler::getSamplerState
TextureSamplerState(texture) == texture

SamplerObjectState(sampler) == 10 + sampler

\* TextureState::getEffectiveBaseLevel, read by ShaderConstants11::onSamplerChange
BaseLevel(texture) == texture % 2

\* Framebuffer attachments: the default framebuffer has depth and stencil,
\* framebuffer 1 has a depth-only and framebuffer 2 a stencil-only attachment.
FramebufferHasDepth(fb) == fb # 2

FramebufferHasStencil(fb) == fb \in { 0, 2 }

FramebufferSamples(fb) == IF fb = 1 THEN 4 ELSE 0

FramebufferRTV(fb) == 300 + fb

FramebufferDSV(fb) == 310 + fb

\* framebuffer->getFirstNonNullAttachment: framebuffer 3 has no attachment.
FramebufferHasAttachment(fb) == fb # 3

\* The size of the first non-null attachment of a framebuffer.
FirstAttachmentSize(glState) ==
    IF glState.framebuffer = 0
    THEN (IF glState.defaultFramebufferZeroSize
          THEN [ width |-> 0, height |-> 0 ] ELSE [ width |-> 2, height |-> 2 ])
    ELSE [ width |-> 4, height |-> 4 ]

\* UsePresentPathFast: the renderer presents without a copy and the colour
\* attachment is the back buffer of the window surface.
UsePresentPathFast(glState) ==
    glState.presentPathFastEnabled /\ glState.framebuffer = 0

\* The texture whose storage backs the colour attachment (0: a surface).
FramebufferColorTexture(fb) == IF fb = 1 THEN 1 ELSE 0

\* framebuffer->getColorbuffer and renderTarget->getTexture: the attachment's
\* type, image index and resource.
FramebufferColorbuffer(glState) ==
    IF FramebufferColorTexture(glState.framebuffer) = 0
    THEN [ type |-> "GL_FRAMEBUFFER_DEFAULT",
           resource |-> 100,
           index |-> [ type |-> "_2D", mipIndex |-> 0, layerIndex |-> 0 ] ]
    ELSE [ type |-> "GL_TEXTURE",
           resource |-> glState.colorAttachment.resource,
           index |-> glState.colorAttachment.index ]

\* VertexArray11::getTranslatedAttribs: buffer, stride of attribute i.
AttribBuffer(vao, i) == 400 + 10 * vao + i

AttribStride(vao, i) == 4 * vao

\* TranslatedAttribute::computeOffset
AttribOffset(vao, i, firstVertex) == firstVertex * AttribStride(vao, i)

\* TranslatedAttribute::divisor: attribute 0 of vertex array 2 is instanced.
AttribDivisor(vao, i) == IF vao = 2 /\ i = 0 THEN 1 ELSE 0

\* gl::VertexAttribute::enabled: attribute 1 of vertex array 2 is a
\* current-value attribute.
AttribEnabled(vao, i) == ~(vao = 2 /\ i = 1)

\* VertexDataManager::storeCurrentValue: the streaming buffer of a current value
CurrentValueBuffer(i) == 450 + i

\* InputLayoutCache::getInputLayout()->getSerial()
InputLayoutSerial(program, vao) == 500 + 10 * program + vao

\* IndexDataManager::prepareIndexData: the translated index buffer.
IndexBufferOf(vao) == 600 + vao

\* mPointSpriteVertexBuffer and mPointSpriteIndexBuffer, once allocated, and
\* kPointSpriteVertexStride
PointSpriteVertexBuffer == 460

PointSpriteIndexBuffer == 660

kPointSpriteVertexStride == 20

\* TransformFeedback11::getSerial
TransformFeedbackSerial == 700

\* mRenderer->generateSerial() in the constructor
mEmptySerial == 701

\* ------------------------------------------------------------------- state
VARIABLES
    sm,      \* the StateManager11 object
    dev,     \* what the device context has bound, and the calls of the last operation
    gl,      \* the logical GL state and the collaborators' own state
    tr,      \* trace of the most recent updateState call
    last,    \* the most recent operation and the dirty bits it found
    hist,    \* notifications received since the last updateState call
    nOps,    \* environment operations so far
    nPasses  \* updateState calls so far

vars == << sm, dev, gl, tr, last, hist, nOps, nPasses >>

\* A ViewRecord with no view.
NullViewRecord == [ view |-> 0, resource |-> 0 ]

\* A device call: the entry point, the first slot and the number of slots.
Call(fn, slot, n) == [ fn |-> fn, slot |-> slot, n |-> n ]

\* The viewport-derived members of ShaderConstants11::Vertex and ::Pixel as
\* their constructors leave them.  viewAdjust holds the numerators and the
\* denominators of its quotients, viewCoords twice its values.
NoViewportConstants ==
    [ viewAdjust |-> << 0, 0, 0, 0 >>, viewAdjustDivisor |-> << 1, 1 >>,
      viewCoords |-> << 0, 0, 0, 0 >>, depthRange |-> 0, viewScale |-> << 0, 0 >> ]

\* StateManager11::StateManager11 followed by StateManager11::initialize.
\* stencilFunc is the one cached field the constructor does not assign.
InitSM(stencilFunc) ==
    [ mInternalDirtyBits |-> Groups,
      mRenderTargetIsDirty |-> TRUE,
      mCurrentQueries |-> { },
      mCur |-> [ k \in FFKinds |->
                   IF k = "STENCIL_FUNCS_FRONT" THEN stencilFunc ELSE 0 ],
      mCurSampleMask |-> 0,
      mViewportBounds |-> [ width |-> 0, height |-> 0 ],
      mViewportOffsets |-> << [ x |-> 0, y |-> 0 ] >>,
      mCurPresentPathFastEnabled |-> FALSE,
      mCurPresentPathFastColorBufferHeight |-> 0,
      mCurStencilSize |-> 0,
      mCurDisableDepth |-> [ valid |-> FALSE, value |-> FALSE ],
      mCurDisableStencil |-> [ valid |-> FALSE, value |-> FALSE ],
      multiSample |-> FALSE,
      pointDrawMode |-> FALSE,
      mDirtyCurrentValueAttribs |-> AttribSlots,
      mCurrentValueAttribs |-> [ i \in AttribSlots |-> 0 ],
      mCurrentAttributes |-> << >>,
      mCurrentInputLayout |-> kDirtySerial,
      mDirtyVertexBufferRange |-> [ low |-> MaxVertexAttribs, high |-> 0 ],
      mCurrentVertexBuffers |-> [ i \in AttribSlots |-> 0 ],
      mCurrentVertexStrides |-> [ i \in AttribSlots |-> -1 ],
      mCurrentVertexOffsets |-> [ i \in AttribSlots |-> -1 ],
      mCurrentPrimitiveTopology |-> "UNDEFINED",
      mLastAppliedDrawMode |-> "GL_INVALID_INDEX",
      mLastFirstVertex |-> [ valid |-> FALSE, value |-> 0 ],
      mCurrentMinimumDrawCount |-> 0,
      mDirtySwizzles |-> FALSE,
      mAppliedIB |-> [ buffer |-> 0, format |-> "UNKNOWN", offset |-> 0 ],
      mIndexBufferIsDirty |-> FALSE,
      mAppliedVertexShader |-> kDirtySerial,
      mAppliedGeometryShader |-> kDirtySerial,
      mAppliedPixelShader |-> kDirtySerial,
      mCurrentConstantBuffer |->
          [ s \in Stages |-> [ i \in CBSlots |-> kDirtySerial ] ],
      mCurrentConstantBufferOffset |-> [ s \in Stages |-> [ i \in CBSlots |-> 0 ] ],
      mCurrentConstantBufferSize |-> [ s \in Stages |-> [ i \in CBSlots |-> 0 ] ],
      mCurrentGeometryConstantBuffer |-> kDirtySerial,
      mDriverConstantBufferValid |-> [ s \in Stages |-> FALSE ],
      mCurSRVs |-> [ s \in Stages |->
                       [ views |-> [ i \in TextureSlots |-> NullViewRecord ],
                         highestUsed |-> 0 ] ],
      mCurComputeUAVs |-> [ views |-> [ i \in TextureSlots |-> NullViewRecord ],
                            highestUsed |-> 0 ],
      mForceSetSamplerStates |-> [ s \in Stages |-> [ i \in TextureSlots |-> TRUE ] ],
      mCurSamplerStates |-> [ s \in Stages |-> [ i \in TextureSlots |-> 0 ] ],
      mShaderConstants |->
          [ dirty |-> [ s \in Stages |-> TRUE ],
            samplerMetadataDirty |-> [ s \in Stages |-> TRUE ],
            numActiveSamplers |-> [ s \in Stages |-> 0 ],
            baseLevel |-> [ s \in Stages |-> [ i \in TextureSlots |-> 0 ] ],
            viewport |-> NoViewportConstants ],
      mAppliedTFSerial |-> kDirtySerial,
      mConstantBufferObserver |-> NoObservedBuffers ]

\* A freshly created device context: nothing is bound.
InitDevice ==
    [ renderTarget |-> [ rtv |-> 0, dsv |-> 0 ],
      viewport |-> [ by |-> "none", state |-> [ k \in ViewportKinds |-> 0 ],
                     rects |-> << >> ],
      scissor |-> [ by |-> "none", state |-> [ k \in ScissorKinds |-> 0 ] ],
      rasterizer |-> [ by |-> "none", state |-> [ k \in RasterKinds |-> 0 ],
                       pointDrawMode |-> FALSE, multiSample |-> FALSE,
                       scissorEnabled |-> 0 ],
      blend |-> [ by |-> "none", state |-> [ k \in BlendKinds |-> 0 ],
                  fb |-> 0, sampleMask |-> 0 ],
      depthStencil |-> [ by |-> "none", state |-> [ k \in DepthStencilKinds |-> 0 ] ],
      srv |-> [ s \in Stages |-> [ i \in TextureSlots |-> 0 ] ],
      uav |-> [ i \in TextureSlots |-> 0 ],
      sampler |-> [ s \in Stages |-> [ i \in TextureSlots |-> 0 ] ],
      constantBuffer |->
          [ s \in Stages |->
              [ i \in CBSlots |-> [ serial |-> 0, first |-> 0, num |-> 0 ] ] ],
      geometryConstantBuffer |-> 0,
      vertexShader |-> 0,
      geometryShader |-> 0,
      pixelShader |-> 0,
      inputLayout |-> 0,
      vertexBuffer |-> [ i \in AttribSlots |->
                           [ buffer |-> 0, stride |-> 0, offset |-> 0 ] ],
      indexBuffer |-> [ buffer |-> 0, format |-> "UNKNOWN", offset |-> 0 ],
      topology |-> "UNDEFINED",
      soTargets |-> 0,
      driverConstants |-> [ s \in Stages |-> << >> ],
      calls |-> << >>,
      uploads |-> << >> ]

\* The logical state of a fresh context with program 1, vertex array 1 and the
\* default framebuffer current; the program has just been linked.
InitGL ==
    [ ff |-> [ k \in FFKinds |-> 0 ],
      sampleMask |-> 1,
      framebuffer |-> 0,
      defaultFramebufferZeroSize |-> FALSE,
      colorAttachment |-> [ resource |-> 100 + FramebufferColorTexture(1),
                            index |-> [ type |-> "_2D", mipIndex |-> 0,
                                        layerIndex |-> 0 ] ],
      viewport |-> [ x |-> 0, y |-> 0, width |-> 2, height |-> 2 ],
      framebufferDefaultSize |-> [ width |-> 0, height |-> 0 ],
      is9_3 |-> FALSE,
      presentPathFastEnabled |-> FALSE,
      program |-> 1,
      usesInstancedPointSpriteEmulation |-> FALSE,
      vertexArray |-> 1,
      completeTextures |-> [ u \in TextureSlots |-> 0 ],
      samplers |-> [ u \in TextureSlots |-> 0 ],
      uniformBuffer |-> 0,
      activeQuery |-> [ t \in TrackedQueryTypes |-> 0 ],
      transformFeedbackActive |-> FALSE,
      transformFeedbackDirty |-> FALSE,
      samplerMappingDirty |-> TRUE,
      uniformsDirty |-> TRUE,
      failAt |-> "none" ]

\* Trace of an updateState call that has not happened.
NoTrace ==
    [ ran |-> FALSE, failed |-> FALSE, mode |-> "GL_TRIANGLES", firstVertex |-> 0,
      isDrawElements |-> FALSE, repeat |-> FALSE, prevFailed |-> FALSE,
      atCall |-> { }, afterPre |-> { }, snapshot |-> { },
      synced |-> << >>, live |-> << >>,
      notified |-> { }, notifiedSinceSuccess |-> { },
      callsAtFailure |-> 0, pointSpriteIndexBufferApplied |-> FALSE,
      ibForeignAtCall |-> FALSE, bypassedSinceSuccess |-> { }, bypassedSincePass |-> { },
      prevUndrained |-> { },
      before |-> [ mCur |-> [ k \in FFKinds |-> 0 ], mCurSampleMask |-> 0,
                   pixelSampler |-> 0, forcePixelSampler |-> FALSE,
                   dirtyCurrentValueAttribs |-> { } ] ]

\* The object and the device before a call, where an operation records none.
NoBefore == [ sm |-> << >>, dev |-> << >>, hist |-> << >> ]

NoOperation ==
    [ name |-> "none", kind |-> "", same |-> FALSE, dirtyBefore |-> { },
      args |-> << >>, before |-> NoBefore, failed |-> FALSE ]

\* recorded: the used sampler range of the program at the stage's last
\* updateBuffer call; zeroed: markDirty was called, or a sampler's metadata
\* changed, since that call; samplerCalls: the setSamplerState calls on a slot.
\* queued, stored, invalidated: since the last applyVertexBufferChanges, the
\* slots whose triple a queueVertexBufferChange changed, the slots whose
\* current value syncCurrentValueAttribs took, and whether
\* invalidateVertexBuffer was called.
\* everBound: the view slots, by view cache, that a device call has bound to
\* a view since construction.
\* ibForeign: the applied index buffer was changed by another caller than
\* applyIndexBuffer since the last indexed draw.
\* bypassedSinceSuccess: the state groups a direct setter wrote to the device
\* since the last updateState call that returned success.
NoHistory ==
    [ pending |-> { }, pendingSinceSuccess |-> { }, everBound |-> { },
      recorded |-> [ s \in Stages |-> 0 ],
      zeroed |-> [ s \in Stages |-> FALSE ],
      samplerCalls |-> [ s \in Stages |-> [ i \in TextureSlots |-> 0 ] ],
      queued |-> { }, stored |-> { }, invalidated |-> FALSE, ibForeign |-> FALSE,
      bypassedSinceSuccess |-> { }, bypassedSincePass |-> { },
      sequence |-> [ s \in Stages |-> << >> ] ]

Init ==
    /\ \E stencilFunc \in Val : sm = InitSM(stencilFunc)
    /\ dev = InitDevice
    /\ gl = InitGL
    /\ tr = NoTrace
    /\ last = NoOperation
    /\ hist = NoHistory
    /\ nOps = 0
    /\ nPasses = 0

\* ------------------------------------------------- internal dirty-bit set
\* A world is the record [sm, dev, gl, tr]; every method below maps a world
\* to the world it leaves.

\* mInternalDirtyBits.set(bit) for each bit of a set
SetDirtyBits(w, bits) ==
    [ w EXCEPT !.sm.mInternalDirtyBits = @ \cup bits ]

\* the device call itself: recorded in the calls of the running operation
DeviceCall(w, fn, slot, n) ==
    [ w EXCEPT !.dev.calls = Append(@, Call(fn, slot, n)) ]

invalidateRenderTarget(w) == [ w EXCEPT !.sm.mRenderTargetIsDirty = TRUE ]

invalidateShaders(w) == SetDirtyBits(w, { "SHADERS" })

invalidateInputLayout(w) == SetDirtyBits(w, { "VERTEX_BUFFERS_AND_INPUT_LAYOUT" })

invalidateDriverUniforms(w) == SetDirtyBits(w, { "DRIVER_UNIFORMS" })

invalidateProgramUniforms(w) == SetDirtyBits(w, { "PROGRAM_UNIFORMS" })

invalidateProgramUniformBuffers(w) == SetDirtyBits(w, { "PROGRAM_UNIFORM_BUFFERS" })

invalidateIndexBuffer(w) == [ w EXCEPT !.sm.mIndexBufferIsDirty = TRUE ]

invalidateSwizzles(w) == [ w EXCEPT !.sm.mDirtySwizzles = TRUE ]

\* invalidateViewport that leaves the driver uniforms alone.
invalidateViewport_ViewportOnly(w) == SetDirtyBits(w, { "VIEWPORT_STATE" })

invalidateViewport(w) ==
    invalidateDriverUniforms(SetDirtyBits(w, { "VIEWPORT_STATE" }))

invalidateTexturesAndSamplers(w) ==
    invalidateDriverUniforms(
        invalidateSwizzles(SetDirtyBits(w, { "TEXTURE_AND_SAMPLER_STATE" })))

invalidateVertexBuffer(w) ==
    LET w1 == [ w EXCEPT !.sm.mDirtyVertexBufferRange =
                             [ low |-> 0, high |-> MaxVertexAttribs ] ]
    IN  SetDirtyBits(invalidateShaders(invalidateInputLayout(w1)),
                     { "CURRENT_VALUE_ATTRIBS" })

invalidateTransformFeedback(w) ==
    SetDirtyBits(invalidateShaders(w), { "TRANSFORM_FEEDBACK", "PRIMITIVE_TOPOLOGY" })

invalidateCurrentValueAttrib(w, attribIndex) ==
    LET w1 == [ w EXCEPT !.sm.mDirtyCurrentValueAttribs = @ \cup { attribIndex } ]
    IN  invalidateShaders(
            invalidateInputLayout(SetDirtyBits(w1, { "CURRENT_VALUE_ATTRIBS" })))

invalidateConstantBuffer(w, slot) ==
    IF slot = SLOT_DRIVER THEN invalidateDriverUniforms(w)
    ELSE IF slot = SLOT_DEFAULT_UNIFORM_BLOCK THEN invalidateProgramUniforms(w)
    ELSE invalidateProgramUniformBuffers(w)

\* ------------------------------------------------------------- syncState
\* The internal bits a fixed-function case sets when its comparison differs.
FixedFunctionBits(kind) ==
    IF kind \in BlendKinds THEN { "BLEND_STATE" }
    ELSE IF kind \in DepthStencilKinds THEN { "DEPTH_STENCIL_STATE" }
    ELSE IF kind \in { "CULL_FACE_ENABLED", "CULL_FACE", "FRONT_FACE" }
        THEN { "RASTERIZER_STATE", "PRIMITIVE_TOPOLOGY" }
    ELSE IF kind \in { "POLYGON_OFFSET_FILL_ENABLED", "POLYGON_OFFSET" }
        THEN { "RASTERIZER_STATE" }
    ELSE IF kind = "SCISSOR" THEN { "SCISSOR_STATE" }
    ELSE IF kind = "SCISSOR_TEST_ENABLED" THEN { "SCISSOR_STATE", "RASTERIZER_STATE" }
    ELSE { }

\* The rasterizer-discard case without invalidateShaders.
syncStateRasterizerDiscard_RasterizerOnly(w) ==
    IF w.gl.ff["RASTERIZER_DISCARD_ENABLED"] # w.sm.mCur["RASTERIZER_DISCARD_ENABLED"]
    THEN SetDirtyBits(w, { "RASTERIZER_STATE" })
    ELSE w

\* case DIRTY_BIT_RASTERIZER_DISCARD_ENABLED
syncStateRasterizerDiscard(w) ==
    IF w.gl.ff["RASTERIZER_DISCARD_ENABLED"] # w.sm.mCur["RASTERIZER_DISCARD_ENABLED"]
    THEN invalidateShaders(SetDirtyBits(w, { "RASTERIZER_STATE" }))
    ELSE w

\* The fixed-function cases without the comparison with the cached value.
syncStateFixedFunction_Uncompared(w, kind) ==
    IF kind \in ViewportKinds THEN invalidateViewport(w)
    ELSE IF kind = "RASTERIZER_DISCARD_ENABLED"
    THEN invalidateShaders(SetDirtyBits(w, { "RASTERIZER_STATE" }))
    ELSE SetDirtyBits(w, FixedFunctionBits(kind))

\* the cases that compare the logical value with the cached one
syncStateFixedFunction(w, kind) ==
    IF kind = "RASTERIZER_DISCARD_ENABLED" THEN syncStateRasterizerDiscard(w)
    ELSE IF w.gl.ff[kind] # w.sm.mCur[kind]
    THEN IF kind \in ViewportKinds THEN invalidateViewport(w)
         ELSE SetDirtyBits(w, FixedFunctionBits(kind))
    ELSE w

\* The vertex-array-binding case without invalidateIndexBuffer.
syncStateVertexArrayBinding_NoIndexBuffer(w) ==
    [ invalidateVertexBuffer(w) EXCEPT !.sm.mDirtyCurrentValueAttribs = AttribSlots ]

\* case DIRTY_BIT_VERTEX_ARRAY_BINDING
syncStateVertexArrayBinding(w) ==
    LET w1 == invalidateVertexBuffer(w)
        w2 == [ w1 EXCEPT !.sm.mDirtyCurrentValueAttribs = AttribSlots ]
    IN  invalidateIndexBuffer(w2)

\* The program-executable case without invalidateProgramUniformBuffers.
syncStateProgramExecutable_NoUniformBuffers(w) ==
    invalidateDriverUniforms(
        invalidateProgramUniforms(
            invalidateTexturesAndSamplers(
                invalidateRenderTarget(
                    invalidateVertexBuffer(
                        invalidateShaders(SetDirtyBits(w, { "PRIMITIVE_TOPOLOGY" })))))))

\* case DIRTY_BIT_PROGRAM_EXECUTABLE
syncStateProgramExecutable(w) ==
    LET w1 == SetDirtyBits(w, { "PRIMITIVE_TOPOLOGY" })
        w2 == invalidateShaders(w1)
        w3 == invalidateVertexBuffer(w2)
        w4 == invalidateRenderTarget(w3)
        w5 == invalidateTexturesAndSamplers(w4)
        w6 == invalidateProgramUniforms(w5)
        w7 == invalidateProgramUniformBuffers(w6)
    IN  invalidateDriverUniforms(w7)

\* One bit of the gl::State dirty bits handed to syncState.  attribs is the
\* result of getAndResetDirtyCurrentValues, read by the CURRENT_VALUES case.
syncState(w, kind, attribs) ==
    CASE kind \in FFKinds -> syncStateFixedFunction(w, kind)
      [] kind = "DRAW_FRAMEBUFFER_BINDING" -> invalidateRenderTarget(w)
      [] kind = "VERTEX_ARRAY_BINDING" -> syncStateVertexArrayBinding(w)
      [] kind = "UNIFORM_BUFFER_BINDINGS" -> invalidateProgramUniformBuffers(w)
      [] kind = "TEXTURE_BINDINGS" -> invalidateTexturesAndSamplers(w)
      [] kind = "SAMPLER_BINDINGS" -> invalidateTexturesAndSamplers(w)
      [] kind = "TRANSFORM_FEEDBACK_BINDING" -> invalidateTransformFeedback(w)
      [] kind = "PROGRAM_EXECUTABLE" -> syncStateProgramExecutable(w)
      [] kind = "CURRENT_VALUES" ->
            IF attribs = { } THEN w
            ELSE [ invalidateCurrentValueAttrib(w, CHOOSE a \in attribs : TRUE)
                     EXCEPT !.sm.mDirtyCurrentValueAttribs =
                                w.sm.mDirtyCurrentValueAttribs \cup attribs ]
      [] OTHER -> w

\* ------------------------------------------------ shader resource views
\* An error return that puts the marks of the undrained groups back.
Abort_RestoringMarks(w) ==
    IF w.tr.failed THEN w
    ELSE [ w EXCEPT !.tr.failed = TRUE, !.tr.callsAtFailure = Len(w.dev.calls),
                    !.sm.mInternalDirtyBits =
                        @ \cup (w.tr.snapshot
                                   \ { w.tr.synced[i] : i \in 1..(Len(w.tr.synced) - 1) }) ]

\* The error return of ANGLE_TRY: the pass stops, later steps do nothing.
\* The trace keeps the number of device calls issued before the first error.
Abort(w) ==
    IF w.tr.failed THEN w
    ELSE [ w EXCEPT !.tr.failed = TRUE, !.tr.callsAtFailure = Len(w.dev.calls) ]

\* the do-while of ViewCache::update that lowers mHighestUsedView
RECURSIVE LowerHighestUsed(_, _)
LowerHighestUsed(views, h) ==
    IF h > 0 /\ views[h].view = 0 THEN LowerHighestUsed(views, h - 1) ELSE h

\* ViewCache::update
ViewCacheUpdate(cache, resourceIndex, view) ==
    IF view # 0
    THEN [ cache EXCEPT
             !.views[resourceIndex] = [ view |-> view, resource |-> ViewResource(view) ],
             !.highestUsed = IF resourceIndex + 1 > @ THEN resourceIndex + 1 ELSE @ ]
    ELSE LET c1 == [ cache EXCEPT !.views[resourceIndex] = NullViewRecord ]
         IN  IF resourceIndex + 1 = cache.highestUsed
             THEN [ c1 EXCEPT !.highestUsed =
                                  LowerHighestUsed(c1.views, cache.highestUsed - 1) ]
             ELSE c1

\* The entry points {VS,PS}SetShaderResources and {VS,PS}SetSamplers.
StageCall(stage, what) == (IF stage = "Vertex" THEN "VSSet" ELSE "PSSet") \o what

\* setShaderResourceInternal: texture 0 is nullptr.  The comparison is between
\* the cached native view and the address of the wrapper object.
setShaderResourceInternal(w, stage, resourceSlot, texture) ==
    LET srv    == IF texture = 0 THEN 0 ELSE WrapperAddress(texture)
        srvPtr == IF texture = 0 THEN 0 ELSE NativeSRV(texture)
    IN  IF w.sm.mCurSRVs[stage].views[resourceSlot].view # srv
        THEN [ DeviceCall(w, StageCall(stage, "ShaderResources"), resourceSlot, 1)
                 EXCEPT !.dev.srv[stage][resourceSlot] = srvPtr,
                        !.sm.mCurSRVs[stage] = ViewCacheUpdate(@, resourceSlot, srvPtr) ]
        ELSE w

\* gl::ImageIndex: a null pointer, and the index of a level and layer.
NoIndex == [ type |-> "nullptr", mipIndex |-> 0, layerIndex |-> 0 ]

ImageIndex(type, mipIndex, layerIndex) ==
    [ type |-> type, mipIndex |-> mipIndex, layerIndex |-> layerIndex ]

\* gl::RangeUI::intersects
RangeIntersects(a, b) ==
    IF a.low <= b.low THEN b.low < a.high ELSE a.low < b.high

\* static_cast<UINT> of a GLint: a negative value (an entire level, -1) is
\* above every value it is compared with
AsUINT(value) == IF value < 0 THEN INT_MAX ELSE value

\* ImageIndexConflictsWithSRV
ImageIndexConflictsWithSRV(index, desc) ==
    LET mipLevel == index.mipIndex
        allLevels == desc.MipLevels = UINT_MAX
        maxSrvMip == IF allLevels THEN INT_MAX
                     ELSE desc.MipLevels + desc.MostDetailedMip
        layer == AsUINT(index.layerIndex)
        maxSlice == desc.FirstArraySlice + desc.ArraySize
    IN  CASE desc.ViewDimension = "TEXTURE2D" ->
                /\ index.type = "_2D"
                /\ RangeIntersects([ low |-> index.mipIndex, high |-> INT_MAX ],
                                   [ low |-> desc.MostDetailedMip, high |-> maxSrvMip ])
          [] desc.ViewDimension = "TEXTURE2DARRAY" ->
                /\ index.type \in { "_2DArray", "CubeMap" }
                /\ desc.MostDetailedMip <= mipLevel /\ mipLevel < maxSrvMip
                /\ desc.FirstArraySlice <= layer /\ layer < maxSlice
          [] desc.ViewDimension = "TEXTURECUBE" ->
                /\ index.type = "CubeMap"
                /\ desc.MostDetailedMip <= mipLevel /\ mipLevel < maxSrvMip
          [] desc.ViewDimension = "TEXTURE3D" ->
                /\ index.type = "_3D"
                /\ desc.MostDetailedMip <= mipLevel /\ mipLevel < maxSrvMip
          [] OTHER -> FALSE

\* unsetConflictingSRVs without the comparison of the resources
RecordConflicts_AnyResource(record, resource, index) ==
    /\ record.view # 0
    /\ (index = NoIndex \/ ImageIndexConflictsWithSRV(index, ViewDesc(record.view)))

\* The condition of unsetConflictingSRVs on one slot's record.
RecordConflicts(record, resource, index) ==
    /\ record.view # 0
    /\ record.resource = resource
    /\ (index = NoIndex \/ ImageIndexConflictsWithSRV(index, ViewDesc(record.view)))

\* unsetConflictingSRVs, from slot resourceIndex on
RECURSIVE unsetConflictingSRVs(_, _, _, _, _)
unsetConflictingSRVs(w, stage, resource, index, resourceIndex) ==
    IF resourceIndex >= MaxTextureUnits THEN w
    ELSE unsetConflictingSRVs(
             IF RecordConflicts(w.sm.mCurSRVs[stage].views[resourceIndex], resource, index)
             THEN setShaderResourceInternal(w, stage, resourceIndex, 0)
             ELSE w,
             stage, resource, index, resourceIndex + 1)

\* foundOne, the value unsetConflictingSRVs returns when called in world w
FoundOne(w, stage, resource, index) ==
    \E resourceIndex \in TextureSlots :
        RecordConflicts(w.sm.mCurSRVs[stage].views[resourceIndex], resource, index)

\* unsetConflictingView: the fragment stage is scanned only when the vertex
\* stage held no conflicting view (the right operand of ||)
unsetConflictingView(w, resource) ==
    IF FoundOne(w, "Vertex", resource, NoIndex)
    THEN unsetConflictingSRVs(w, "Vertex", resource, NoIndex, 0)
    ELSE unsetConflictingSRVs(w, "Fragment", resource, NoIndex, 0)

\* the value unsetConflictingView returns when called in world w
ViewConflicts(w, resource) ==
    FoundOne(w, "Vertex", resource, NoIndex) \/ FoundOne(w, "Fragment", resource, NoIndex)

\* unsetConflictingAttachmentResources
unsetConflictingAttachmentResources(w, attachment) ==
    LET index == IF attachment.type = "GL_TEXTURE" THEN attachment.index ELSE NoIndex
    IN  IF attachment.type \in { "GL_TEXTURE", "GL_FRAMEBUFFER_DEFAULT" }
        THEN unsetConflictingSRVs(
                 unsetConflictingSRVs(w, "Vertex", attachment.resource, index, 0),
                 "Fragment", attachment.resource, index, 0)
        ELSE w

\* the loop of clearSRVs that records the cleared slots
RECURSIVE ClearViewRecords(_, _, _)
ClearViewRecords(cache, index, high) ==
    IF index >= high THEN cache
    ELSE ClearViewRecords(ViewCacheUpdate(cache, index, 0), index + 1, high)

\* clearSRVs that clears up to rangeEnd, whatever the highest used slot is.
clearSRVs_FullRange(w, stage, rangeStart, rangeEnd) ==
    IF rangeStart >= rangeEnd THEN w
    ELSE [ DeviceCall(w, StageCall(stage, "ShaderResources"), rangeStart,
                      rangeEnd - rangeStart)
             EXCEPT !.dev.srv[stage] =
                        [ i \in TextureSlots |->
                            IF rangeStart <= i /\ i < rangeEnd THEN 0 ELSE @[i] ],
                    !.sm.mCurSRVs[stage] = ClearViewRecords(@, rangeStart, rangeEnd) ]

\* clearSRVs
clearSRVs(w, stage, rangeStart, rangeEnd) ==
    LET highestUsed == w.sm.mCurSRVs[stage].highestUsed
        high == IF rangeEnd < highestUsed THEN rangeEnd ELSE highestUsed
    IN  IF rangeStart = rangeEnd \/ rangeStart >= high THEN w
        ELSE [ DeviceCall(w, StageCall(stage, "ShaderResources"), rangeStart,
                          high - rangeStart)
                 EXCEPT !.dev.srv[stage] =
                            [ i \in TextureSlots |->
                                IF rangeStart <= i /\ i < high THEN 0 ELSE @[i] ],
                        !.sm.mCurSRVs[stage] = ClearViewRecords(@, rangeStart, high) ]

\* setUnorderedAccessViewInternal: uav 0 is nullptr
setUnorderedAccessViewInternal(w, resourceSlot, uav) ==
    LET wrapper == IF uav = 0 THEN 0 ELSE WrapperAddress(uav)
        uavPtr  == IF uav = 0 THEN 0 ELSE NativeSRV(uav)
    IN  IF w.sm.mCurComputeUAVs.views[resourceSlot].view # wrapper
        THEN [ DeviceCall(w, "CSSetUnorderedAccessViews", resourceSlot, 1)
                 EXCEPT !.dev.uav[resourceSlot] = uavPtr,
                        !.sm.mCurComputeUAVs = ViewCacheUpdate(@, resourceSlot, uavPtr) ]
        ELSE w

\* clearUAVs
clearUAVs(w, rangeStart, rangeEnd) ==
    LET highestUsed == w.sm.mCurComputeUAVs.highestUsed
        high == IF rangeEnd < highestUsed THEN rangeEnd ELSE highestUsed
    IN  IF rangeStart = rangeEnd \/ rangeStart >= high THEN w
        ELSE [ DeviceCall(w, "CSSetUnorderedAccessViews", rangeStart, high - rangeStart)
                 EXCEPT !.dev.uav =
                            [ i \in TextureSlots |->
                                IF rangeStart <= i /\ i < high THEN 0 ELSE @[i] ],
                        !.sm.mCurComputeUAVs = ClearViewRecords(@, rangeStart, high) ]

\* setRenderTarget: view 0 is nullptr.  The depth-stencil view is examined
\* only when the render-target view had no conflict (the right operand of ||).
setRenderTarget(w, rtv, dsv) ==
    LET Bind(w2, anyDirty) ==
            SetDirtyBits(
                [ DeviceCall(IF anyDirty
                             THEN SetDirtyBits(w2, { "TEXTURE_AND_SAMPLER_STATE" })
                             ELSE w2,
                             "OMSetRenderTargets", 0, 1)
                    EXCEPT !.dev.renderTarget = [ rtv |-> rtv, dsv |-> dsv ] ],
                { "RENDER_TARGET" })
        DepthStencil(w1, rtvDirty) ==
            IF rtvDirty \/ dsv = 0 THEN Bind(w1, rtvDirty)
            ELSE Bind(unsetConflictingView(w1, ViewResource(dsv)),
                      ViewConflicts(w1, ViewResource(dsv)))
    IN  IF rtv = 0 THEN DepthStencil(w, FALSE)
        ELSE DepthStencil(unsetConflictingView(w, ViewResource(rtv)),
                          ViewConflicts(w, ViewResource(rtv)))

\* the loops of setRenderTargets: anyDirty = anyDirty || unsetConflictingView(..)
\* calls unsetConflictingView until one call returns true
RECURSIVE UnsetUntilDirty(_, _, _)
UnsetUntilDirty(w, views, viewIndex) ==
    IF viewIndex > Len(views) THEN w
    ELSE IF ViewConflicts(w, ViewResource(views[viewIndex]))
    THEN unsetConflictingView(w, ViewResource(views[viewIndex]))
    ELSE UnsetUntilDirty(unsetConflictingView(w, ViewResource(views[viewIndex])),
                         views, viewIndex + 1)

\* setRenderTargets: rtvs is the array of numRTVs views, dsv 0 is nullptr
setRenderTargets(w, rtvs, dsv) ==
    LET views == IF dsv = 0 THEN rtvs ELSE Append(rtvs, dsv)
        anyDirty == \E i \in DOMAIN views : ViewConflicts(w, ViewResource(views[i]))
        Bind(w2) ==
            SetDirtyBits(
                [ DeviceCall(w2, "OMSetRenderTargets", 0, Len(rtvs))
                    EXCEPT !.dev.renderTarget =
                               [ rtv |-> IF rtvs = << >> THEN 0 ELSE rtvs[1], dsv |-> dsv ] ],
                { "RENDER_TARGET" })
    IN  Bind(IF anyDirty
             THEN SetDirtyBits(UnsetUntilDirty(w, views, 1), { "TEXTURE_AND_SAMPLER_STATE" })
             ELSE UnsetUntilDirty(w, views, 1))

\* setDepthStencilState: depthStencilState 0 is nullptr
setDepthStencilState(w, depthStencilState, stencilRef) ==
    SetDirtyBits(
        [ DeviceCall(w, "OMSetDepthStencilState", 0, 1)
            EXCEPT !.dev.depthStencil =
                       [ by |-> "setDepthStencilState",
                         state |-> [ k \in DepthStencilKinds |-> depthStencilState ],
                         stencilRef |-> stencilRef ] ],
        { "DEPTH_STENCIL_STATE" })

\* setSimpleBlendState: no blend factor; the sample mask 0xFFFFFFFF is the
\* 32-bit pattern with every bit set, written -1
setSimpleBlendState(w, blendState) ==
    SetDirtyBits(
        [ DeviceCall(w, "OMSetBlendState", 0, 1)
            EXCEPT !.dev.blend =
                       [ by |-> "setSimpleBlendState",
                         state |-> [ k \in BlendKinds |-> blendState ],
                         fb |-> w.dev.blend.fb,
                         sampleMask |-> -1 ] ],
        { "BLEND_STATE" })

\* setRasterizerState
setRasterizerState(w, rasterizerState) ==
    SetDirtyBits(
        [ DeviceCall(w, "RSSetState", 0, 1)
            EXCEPT !.dev.rasterizer =
                       [ by |-> "setRasterizerState",
                         state |-> [ k \in RasterKinds |-> rasterizerState ],
                         pointDrawMode |-> FALSE, multiSample |-> FALSE,
                         scissorEnabled |-> 0 ] ],
        { "RASTERIZER_STATE" })

\* setSimpleViewport(int width, int height): one viewport at the origin with
\* depth range 0..1
setSimpleViewport(w, width, height) ==
    SetDirtyBits(
        [ DeviceCall(w, "RSSetViewports", 0, 1)
            EXCEPT !.dev.viewport =
                       [ by |-> "setSimpleViewport",
                         state |-> [ k \in ViewportKinds |-> 0 ],
                         rects |-> << [ TopLeftX |-> 0, TopLeftY |-> 0,
                                        Width |-> width, Height |-> height ] >> ] ],
        { "VIEWPORT_STATE" })

\* setScissorRectD3D, which setSimpleScissorRect calls with the corners of
\* its rectangle
setScissorRectD3D(w, d3dRect) ==
    SetDirtyBits(
        [ DeviceCall(w, "RSSetScissorRects", 0, 1)
            EXCEPT !.dev.scissor =
                       [ by |-> "setScissorRectD3D",
                         state |-> [ k \in ScissorKinds |-> d3dRect ] ] ],
        { "SCISSOR_STATE" })

\* ShaderConstants11::markDirty
markDirty(w) ==
    [ w EXCEPT !.sm.mShaderConstants.dirty = [ s \in Stages |-> TRUE ],
               !.sm.mShaderConstants.numActiveSamplers = [ s \in Stages |-> 0 ] ]

\* ShaderConstants11::onSamplerChange: updateSamplerMetadata returns true when
\* the texture's metadata differs from the stored one
onSamplerChange(w, stage, samplerIndex, texture) ==
    IF w.sm.mShaderConstants.baseLevel[stage][samplerIndex] # BaseLevel(texture)
    THEN [ w EXCEPT
             !.sm.mShaderConstants.baseLevel[stage][samplerIndex] = BaseLevel(texture),
             !.sm.mShaderConstants.numActiveSamplers[stage] = 0 ]
    ELSE w

\* setSamplerState that leaves the forced-rebind flag as it was
setSamplerState_KeepingFlag(w, stage, index, texture, samplerState) ==
    IF w.sm.mForceSetSamplerStates[stage][index]
          \/ samplerState # w.sm.mCurSamplerStates[stage][index]
    THEN IF w.gl.failAt = "getSamplerState" THEN Abort(w)
         ELSE onSamplerChange(
                  [ DeviceCall(w, StageCall(stage, "Samplers"), index, 1)
                      EXCEPT !.dev.sampler[stage][index] = samplerState,
                             !.sm.mCurSamplerStates[stage][index] = samplerState ],
                  stage, index, texture)
    ELSE onSamplerChange(w, stage, index, texture)

\* setSamplerState: the lookup of the device sampler state can return an
\* error, before the bind, the cache write and the clearing of the flag
setSamplerState(w, stage, index, texture, samplerState) ==
    IF w.sm.mForceSetSamplerStates[stage][index]
          \/ samplerState # w.sm.mCurSamplerStates[stage][index]
    THEN IF w.gl.failAt = "getSamplerState" THEN Abort(w)
         ELSE onSamplerChange(
                  [ DeviceCall(w, StageCall(stage, "Samplers"), index, 1)
                      EXCEPT !.dev.sampler[stage][index] = samplerState,
                             !.sm.mCurSamplerStates[stage][index] = samplerState,
                             !.sm.mForceSetSamplerStates[stage][index] = FALSE ],
                  stage, index, texture)
    ELSE onSamplerChange(
             [ w EXCEPT !.sm.mForceSetSamplerStates[stage][index] = FALSE ],
             stage, index, texture)

\* setSimplePixelTextureAndSampler that leaves the forced-rebind flag alone.
setSimplePixelTextureAndSampler_WithoutFlag(w, srv, samplerState) ==
    SetDirtyBits(
        [ DeviceCall(setShaderResourceInternal(w, "Fragment", 0, srv), "PSSetSamplers", 0, 1)
            EXCEPT !.dev.sampler["Fragment"][0] = samplerState ],
        { "TEXTURE_AND_SAMPLER_STATE" })

\* setSimplePixelTextureAndSampler: the sampler is bound on the device and
\* mCurPixelSamplerStates[0] is left as it was
setSimplePixelTextureAndSampler(w, srv, samplerState) ==
    [ SetDirtyBits(
          [ DeviceCall(setShaderResourceInternal(w, "Fragment", 0, srv), "PSSetSamplers", 0, 1)
              EXCEPT !.dev.sampler["Fragment"][0] = samplerState ],
          { "TEXTURE_AND_SAMPLER_STATE" })
        EXCEPT !.sm.mForceSetSamplerStates["Fragment"][0] = TRUE ]

\* setTexture
setTexture(w, stage, index, texture) ==
    setShaderResourceInternal(w, stage, index, texture)

\* the sampler loop of applyTextures
RECURSIVE ApplyTexturesLoop(_, _, _)
ApplyTexturesLoop(w, stage, samplerIndex) ==
    IF w.tr.failed \/ samplerIndex >= UsedSamplerRange(w.gl.program, stage) THEN w
    ELSE LET textureUnit == SamplerMapping(w.gl.program, stage, samplerIndex)
             complete == w.gl.completeTextures[textureUnit]
             texture == IF complete # 0 THEN complete ELSE IncompleteTexture
             samplerState ==
                 IF complete # 0 /\ w.gl.samplers[textureUnit] # 0
                 THEN SamplerObjectState(w.gl.samplers[textureUnit])
                 ELSE TextureSamplerState(texture)
             Texture(w1) ==
                 IF w1.tr.failed THEN w1 ELSE setTexture(w1, stage, samplerIndex, texture)
         IN  ApplyTexturesLoop(
                 Texture(setSamplerState(w, stage, samplerIndex, texture, samplerState)),
                 stage, samplerIndex + 1)

\* applyTextures
applyTextures(w, stage) ==
    LET Clear(w1) ==
            IF w1.tr.failed THEN w1
            ELSE clearSRVs(w1, stage, UsedSamplerRange(w.gl.program, stage), MaxTextureUnits)
    IN  Clear(ApplyTexturesLoop(w, stage, 0))

\* syncTextures
syncTextures(w) ==
    LET Fragment(w1) == IF w1.tr.failed THEN w1 ELSE applyTextures(w1, "Fragment")
    IN  Fragment(applyTextures(w, "Vertex"))

\* ------------------------------------------ fixed-function synchronizers
\* The cached fixed-function values with those of one group replaced by the
\* logical ones (mCurBlendState = blendState and its like).
CacheGroup(w, kinds) ==
    [ k \in FFKinds |-> IF k \in kinds THEN w.gl.ff[k] ELSE w.sm.mCur[k] ]

\* gl::clamp01 on the abstract depth-range values
clamp01(v) == IF v > 1 THEN 1 ELSE IF v < 0 THEN 0 ELSE v

\* syncFramebuffer
syncFramebuffer(w) ==
    LET fb == w.gl.framebuffer
    IN  IF fb = 0 /\ w.gl.defaultFramebufferZeroSize THEN w
        ELSE [ DeviceCall(unsetConflictingAttachmentResources(w, FramebufferColorbuffer(w.gl)),
                          "OMSetRenderTargets", 0, 1)
                 EXCEPT !.dev.renderTarget =
                            [ rtv |-> FramebufferRTV(fb), dsv |-> FramebufferDSV(fb) ] ]

\* gl::clamp
clamp(x, min, max) == IF x < min THEN min ELSE IF x > max THEN max ELSE x

\* The viewport bounds in force in syncViewport.
ViewportBoundsInForce(w) ==
    IF w.gl.is9_3
    THEN [ minX |-> 0, minY |-> 0,
           maxX |-> w.sm.mViewportBounds.width, maxY |-> w.sm.mViewportBounds.height ]
    ELSE [ minX |-> -MaxViewportBounds, minY |-> -MaxViewportBounds,
           maxX |-> MaxViewportBounds, maxY |-> MaxViewportBounds ]

\* dxViewports[i] in syncViewport (present path fast is off)
ViewportRectangle(w, i) ==
    LET viewport == w.gl.viewport
        b == ViewportBoundsInForce(w)
        default == w.gl.framebufferDefaultSize
        dxViewportTopLeftX == clamp(viewport.x + w.sm.mViewportOffsets[i].x, b.minX, b.maxX)
        dxViewportTopLeftY == clamp(viewport.y + w.sm.mViewportOffsets[i].y, b.minY, b.maxY)
        dxViewportWidth == clamp(viewport.width, 0, b.maxX - dxViewportTopLeftX)
        dxViewportHeight == clamp(viewport.height, 0, b.maxY - dxViewportTopLeftY)
        noAttachment == /\ ~FramebufferHasAttachment(w.gl.framebuffer)
                        /\ (default.width # 0 \/ default.height # 0)
    IN  [ TopLeftX |-> dxViewportTopLeftX,
          TopLeftY |-> IF w.sm.mCurPresentPathFastEnabled
                       THEN w.sm.mCurPresentPathFastColorBufferHeight
                                - dxViewportTopLeftY - dxViewportHeight
                       ELSE dxViewportTopLeftY,
          Width |-> IF noAttachment
                    THEN (IF viewport.width < default.width
                          THEN viewport.width ELSE default.width)
                    ELSE dxViewportWidth,
          Height |-> IF noAttachment
                     THEN (IF viewport.height < default.height
                           THEN viewport.height ELSE default.height)
                     ELSE dxViewportHeight ]

\* adjustViewport in syncViewport: the rectangle of the last viewport offset
\* as clamped to the bounds, before the inversion and the default size
AdjustViewport(w) ==
    LET viewport == w.gl.viewport
        b == ViewportBoundsInForce(w)
        offset == w.sm.mViewportOffsets[Len(w.sm.mViewportOffsets)]
        dxViewportTopLeftX == clamp(viewport.x + offset.x, b.minX, b.maxX)
        dxViewportTopLeftY == clamp(viewport.y + offset.y, b.minY, b.maxY)
    IN  [ TopLeftX |-> dxViewportTopLeftX, TopLeftY |-> dxViewportTopLeftY,
          Width |-> clamp(viewport.width, 0, b.maxX - dxViewportTopLeftX),
          Height |-> clamp(viewport.height, 0, b.maxY - dxViewportTopLeftY) ]

\* ShaderConstants11::onViewportChange; zNear and zFar are the one abstract
\* depth range
onViewportChange(w, glViewport, dxViewport, depthRange, is9_3, presentPathFast) ==
    [ w EXCEPT
        !.sm.mShaderConstants.dirty = [ s \in Stages |-> TRUE ],
        !.sm.mShaderConstants.viewport =
            [ viewAdjust |->
                  IF is9_3
                  THEN << (glViewport.width - dxViewport.Width)
                              + 2 * (glViewport.x - dxViewport.TopLeftX),
                          (glViewport.height - dxViewport.Height)
                              + 2 * (glViewport.y - dxViewport.TopLeftY),
                          glViewport.width, glViewport.height >>
                  ELSE @.viewAdjust,
              viewAdjustDivisor |->
                  IF is9_3 THEN << dxViewport.Width, dxViewport.Height >>
                  ELSE @.viewAdjustDivisor,
              viewCoords |-> << glViewport.width, glViewport.height,
                                2 * glViewport.x + glViewport.width,
                                2 * glViewport.y + glViewport.height >>,
              depthRange |-> depthRange,
              viewScale |-> << 1, IF presentPathFast THEN 1 ELSE -1 >> ] ]

\* syncViewport, with ShaderConstants11::onViewportChange at its end
syncViewport(w) ==
    LET state == [ k \in ViewportKinds |->
                     IF k = "DEPTH_RANGE" THEN clamp01(w.gl.ff[k]) ELSE w.gl.ff[k] ]
        Bound(w1) ==
            [ DeviceCall(w1, "RSSetViewports", 0, 1)
                EXCEPT !.dev.viewport =
                           [ by |-> "sync", state |-> state,
                             rects |-> [ i \in DOMAIN w.sm.mViewportOffsets |->
                                           ViewportRectangle(w, i) ] ],
                       !.sm.mCur = [ k \in FFKinds |->
                                       IF k \in ViewportKinds THEN state[k] ELSE @[k] ] ]
    IN  onViewportChange(Bound(w), w.gl.viewport, AdjustViewport(w), state["DEPTH_RANGE"],
                         w.gl.is9_3, w.sm.mCurPresentPathFastEnabled)

\* syncScissorRectangle
syncScissorRectangle(w) ==
    LET w1 == IF w.gl.ff["SCISSOR_TEST_ENABLED"] # 0
              THEN [ DeviceCall(w, "RSSetScissorRects", 0, 1)
                       EXCEPT !.dev.scissor =
                                  [ by |-> "sync",
                                    state |-> [ k \in ScissorKinds |-> w.gl.ff[k] ] ] ]
              ELSE w
    IN  [ w1 EXCEPT !.sm.mCur = CacheGroup(w, ScissorKinds) ]

\* syncRasterizerState
syncRasterizerState(w, mode) ==
    IF w.gl.failAt = "getRasterizerState" THEN Abort(w)
    ELSE [ DeviceCall(w, "RSSetState", 0, 1)
             EXCEPT !.dev.rasterizer =
                        [ by |-> "sync",
                          state |-> [ k \in RasterKinds |-> w.gl.ff[k] ],
                          pointDrawMode |-> (mode = "GL_POINTS"),
                          multiSample |-> w.sm.multiSample,
                          scissorEnabled |-> w.sm.mCur["SCISSOR_TEST_ENABLED"] ],
                    !.sm.mCur = CacheGroup(w, RasterKinds),
                    !.sm.pointDrawMode = (mode = "GL_POINTS") ]

\* syncBlendState without the assignment of mCurSampleMask.
syncBlendState_StaleSampleMask(w) ==
    IF w.gl.failAt = "getBlendState" THEN Abort(w)
    ELSE [ DeviceCall(w, "OMSetBlendState", 0, 1)
             EXCEPT !.dev.blend =
                        [ by |-> "sync",
                          state |-> [ k \in BlendKinds |-> w.gl.ff[k] ],
                          fb |-> w.gl.framebuffer,
                          sampleMask |-> w.gl.sampleMask ],
                    !.sm.mCur = CacheGroup(w, BlendKinds) ]

\* syncBlendState
syncBlendState(w) ==
    IF w.gl.failAt = "getBlendState" THEN Abort(w)
    ELSE [ DeviceCall(w, "OMSetBlendState", 0, 1)
             EXCEPT !.dev.blend =
                        [ by |-> "sync",
                          state |-> [ k \in BlendKinds |-> w.gl.ff[k] ],
                          fb |-> w.gl.framebuffer,
                          sampleMask |-> w.gl.sampleMask ],
                    !.sm.mCur = CacheGroup(w, BlendKinds),
                    !.sm.mCurSampleMask = w.gl.sampleMask ]

\* The depth-stencil state with the write masks of a disabled stencil test
\* left as the application set them.
ModifiedDepthStencilState_KeepingWritemask(w) ==
    LET disableDepth == w.sm.mCurDisableDepth.value
        stencilTest == IF w.sm.mCurDisableStencil.value THEN 0
                       ELSE w.gl.ff["STENCIL_TEST_ENABLED"]
    IN  [ k \in DepthStencilKinds |->
            IF k \in { "DEPTH_TEST_ENABLED", "DEPTH_MASK" } /\ disableDepth THEN 0
            ELSE IF k = "STENCIL_TEST_ENABLED" THEN stencilTest
            ELSE w.gl.ff[k] ]

\* The depth-stencil state handed to the device: the logical one with the
\* attachment overrides applied.
ModifiedDepthStencilState(w) ==
    LET disableDepth == w.sm.mCurDisableDepth.value
        stencilTest == IF w.sm.mCurDisableStencil.value THEN 0
                       ELSE w.gl.ff["STENCIL_TEST_ENABLED"]
    IN  [ k \in DepthStencilKinds |->
            IF k \in { "DEPTH_TEST_ENABLED", "DEPTH_MASK" } /\ disableDepth THEN 0
            ELSE IF k = "STENCIL_TEST_ENABLED" THEN stencilTest
            ELSE IF k \in { "STENCIL_WRITEMASK_FRONT", "STENCIL_WRITEMASK_BACK" }
                    /\ stencilTest = 0 THEN 0
            ELSE w.gl.ff[k] ]

\* syncDepthStencilState: the cache is written before the fallible lookup
syncDepthStencilState(w) ==
    LET w1 == [ w EXCEPT !.sm.mCur = CacheGroup(w, DepthStencilKinds) ]
    IN  IF w.gl.failAt = "getDepthStencilState" THEN Abort(w1)
        ELSE [ DeviceCall(w1, "OMSetDepthStencilState", 0, 1)
                 EXCEPT !.dev.depthStencil =
                            [ by |-> "sync", state |-> ModifiedDepthStencilState(w1) ] ]

\* ------------------------------------------------------ constant buffers
\* One {VS,PS}SetConstantBuffers[1] call: the device slot bound to a buffer
\* and to the range of it the call names.
BindConstantBuffer(w, stage, slot, serial, offset, size) ==
    [ DeviceCall(w, StageCall(stage, "ConstantBuffers"), slot, 1)
        EXCEPT !.dev.constantBuffer[stage][slot] =
                   [ serial |-> serial, first |-> offset \div 16, num |-> size \div 16 ] ]

\* The cached serial, offset and size of one slot.
CacheConstantBuffer(w, stage, slot, serial, offset, size) ==
    [ w EXCEPT !.sm.mCurrentConstantBuffer[stage][slot] = serial,
               !.sm.mCurrentConstantBufferOffset[stage][slot] = offset,
               !.sm.mCurrentConstantBufferSize[stage][slot] = size ]

\* applyUniforms, one stage
applyUniformsStage(w, stage) ==
    LET slot == SLOT_DEFAULT_UNIFORM_BLOCK
        serial == UniformStorageSerial(w.gl.program, stage)
    IN  IF w.sm.mCurrentConstantBuffer[stage][slot] # serial
        THEN CacheConstantBuffer(BindConstantBuffer(w, stage, slot, serial, 0, 0),
                                 stage, slot, serial, 0, 0)
        ELSE w

\* applyUniforms, with ProgramD3D::markUniformsClean at its end
applyUniforms(w) ==
    [ applyUniformsStage(applyUniformsStage(w, "Vertex"), "Fragment")
        EXCEPT !.gl.uniformsDirty = FALSE ]

\* updateBuffer that compares with the number of samplers uploaded last
\* instead of the recorded count
updateBuffer_NoRecord(w, stage) ==
    LET numSamplers == UsedSamplerRange(w.gl.program, stage)
        dirty == \/ w.sm.mShaderConstants.dirty[stage]
                 \/ w.sm.mShaderConstants.numActiveSamplers[stage] < numSamplers
        Cleared(w1) == [ w1 EXCEPT !.sm.mShaderConstants.dirty[stage] = FALSE ]
    IN  IF ~dirty THEN Cleared(w)
        ELSE IF w.gl.failAt = "mapResource" THEN Abort(Cleared(w))
        ELSE [ Cleared(w) EXCEPT
                 !.sm.mShaderConstants.numActiveSamplers[stage] = numSamplers,
                 !.dev.uploads = Append(@, [ stage |-> stage, header |-> TRUE,
                                             samplers |-> numSamplers ]) ]

\* ShaderConstants11::updateBuffer: the flag is cleared and the count is
\* recorded whether or not the image is uploaded; an upload is the header
\* followed by the metadata of samplers [0, numSamplers)
updateBuffer(w, stage) ==
    LET numSamplers == UsedSamplerRange(w.gl.program, stage)
        dirty == \/ w.sm.mShaderConstants.dirty[stage]
                 \/ w.sm.mShaderConstants.numActiveSamplers[stage] < numSamplers
        Recorded(w1) ==
            [ w1 EXCEPT !.sm.mShaderConstants.dirty[stage] = FALSE,
                        !.sm.mShaderConstants.numActiveSamplers[stage] = numSamplers ]
    IN  IF ~dirty THEN Recorded(w)
        ELSE IF w.gl.failAt = "mapResource" THEN Abort(Recorded(w))
        ELSE [ Recorded(w) EXCEPT
                 !.dev.driverConstants[stage] = w.sm.mShaderConstants.viewport,
                 !.dev.uploads = Append(@, [ stage |-> stage, header |-> TRUE,
                                             samplers |-> numSamplers ]) ]

\* applyDriverUniforms, the allocation and first binding of one stage's buffer
applyDriverUniformsStage(w, stage) ==
    IF ~w.sm.mDriverConstantBufferValid[stage]
    THEN [ BindConstantBuffer(w, stage, SLOT_DRIVER, DriverConstantBufferSerial(stage), 0, 0)
             EXCEPT !.sm.mDriverConstantBufferValid[stage] = TRUE ]
    ELSE w

\* applyDriverUniforms
applyDriverUniforms(w) ==
    LET serial == DriverConstantBufferSerial("Fragment")
        Geometry(w3) ==
            IF w3.sm.mCurrentGeometryConstantBuffer # serial
            THEN [ DeviceCall(w3, "GSSetConstantBuffers", 0, 1)
                     EXCEPT !.dev.geometryConstantBuffer = serial,
                            !.sm.mCurrentGeometryConstantBuffer = serial ]
            ELSE w3
        Fragment(w2) ==
            IF w2.tr.failed THEN w2 ELSE updateBuffer(w2, "Fragment")
        Last(w4) == IF w4.tr.failed THEN w4 ELSE Geometry(w4)
    IN  Last(Fragment(updateBuffer(
            applyDriverUniformsStage(applyDriverUniformsStage(w, "Vertex"), "Fragment"),
            "Vertex")))

\* syncUniformBuffers, the loop of one stage from block bufferIndex on.  The
\* cache is compared at bufferIndex and written at appliedIndex.
RECURSIVE syncUniformBuffersLoop(_, _, _)
syncUniformBuffersLoop(w, stage, bufferIndex) ==
    IF bufferIndex >= MaxUniformBlocks THEN w
    ELSE LET binding == UniformBufferCache(w.gl.program, stage)[bufferIndex + 1]
             ubo == w.gl.uniformBuffer
             serial == ConstantBufferSerial(ubo)
             offset == UniformBufferOffset(ubo)
             size == UniformBufferSize(ubo)
             appliedIndex == ReservedUniformBuffers + bufferIndex
             skip == \/ binding = -1
                     \/ ubo = 0
                     \/ /\ w.sm.mCurrentConstantBuffer[stage][bufferIndex] = serial
                        /\ w.sm.mCurrentConstantBufferOffset[stage][bufferIndex] = offset
                        /\ w.sm.mCurrentConstantBufferSize[stage][bufferIndex] = size
             ranged == FirstConstant(ubo) # 0 /\ size # 0
             w1 == BindConstantBuffer(w, stage, appliedIndex, serial,
                                      IF ranged THEN offset ELSE 0,
                                      IF ranged THEN size ELSE 0)
             w2 == CacheConstantBuffer(w1, stage, appliedIndex, serial, offset, size)
             w3 == [ w2 EXCEPT !.sm.mConstantBufferObserver[stage][bufferIndex] = ubo ]
         IN  syncUniformBuffersLoop(IF skip THEN w ELSE w3, stage, bufferIndex + 1)

\* syncUniformBuffers
syncUniformBuffers(w) ==
    LET w1 == [ w EXCEPT !.sm.mConstantBufferObserver = NoObservedBuffers ]
    IN  syncUniformBuffersLoop(syncUniformBuffersLoop(w1, "Vertex", 0), "Fragment", 0)

\* ConstantBufferObserver::onSubjectStateChange
onSubjectStateChange(w, message) ==
    IF message = "STORAGE_CHANGED" THEN invalidateProgramUniformBuffers(w) ELSE w

\* setVertexConstantBuffer and setPixelConstantBuffer: serial 0 is nullptr
setConstantBuffer(w, stage, slot, serial) ==
    LET zeroed == [ w EXCEPT !.sm.mCurrentConstantBufferOffset[stage][slot] = 0,
                             !.sm.mCurrentConstantBufferSize[stage][slot] = 0 ]
        currentSerial == w.sm.mCurrentConstantBuffer[stage][slot]
    IN  IF (serial # 0 /\ currentSerial # serial) \/ (serial = 0 /\ currentSerial # kEmptySerial)
        THEN invalidateConstantBuffer(
                 [ BindConstantBuffer(zeroed, stage, slot, serial, 0, 0)
                     EXCEPT !.sm.mCurrentConstantBuffer[stage][slot] = serial ],
                 slot)
        ELSE zeroed

\* ---------------------------------------------------------------- shaders
\* setVertexShader, setGeometryShader, setPixelShader: serial 0 is nullptr
setVertexShader(w, serial) ==
    IF serial # w.sm.mAppliedVertexShader
    THEN invalidateShaders(
             [ DeviceCall(w, "VSSetShader", 0, 1)
                 EXCEPT !.dev.vertexShader = serial, !.sm.mAppliedVertexShader = serial ])
    ELSE w

setGeometryShader(w, serial) ==
    IF serial # w.sm.mAppliedGeometryShader
    THEN invalidateShaders(
             [ DeviceCall(w, "GSSetShader", 0, 1)
                 EXCEPT !.dev.geometryShader = serial, !.sm.mAppliedGeometryShader = serial ])
    ELSE w

setPixelShader(w, serial) ==
    IF serial # w.sm.mAppliedPixelShader
    THEN invalidateShaders(
             [ DeviceCall(w, "PSSetShader", 0, 1)
                 EXCEPT !.dev.pixelShader = serial, !.sm.mAppliedPixelShader = serial ])
    ELSE w

\* setDrawShaders that also invalidates the input layout.
setDrawShaders_InvalidatingInputLayout(w, vertexShader, geometryShader, pixelShader) ==
    invalidateInputLayout(
        setPixelShader(setGeometryShader(setVertexShader(w, vertexShader), geometryShader),
                       pixelShader))

\* setDrawShaders
setDrawShaders(w, vertexShader, geometryShader, pixelShader) ==
    setPixelShader(setGeometryShader(setVertexShader(w, vertexShader), geometryShader),
                   pixelShader)

\* The live dirty-bit set, observed at a point of the running pass.
Observe(w, at) ==
    [ w EXCEPT !.tr.live = Append(@, [ at |-> at, bits |-> w.sm.mInternalDirtyBits ]) ]

\* syncProgram without the explicit clear of the shaders dirty bit.
ClearShadersBit_Skipped(w) == w

\* "Explicitly clear the shaders dirty bit."
ClearShadersBit(w) == [ w EXCEPT !.sm.mInternalDirtyBits = @ \ { "SHADERS" } ]

\* syncProgram that binds the pixel executable under rasterizer discard too.
syncProgram_KeepingPixelShader(w, mode) ==
    LET program == w.gl.program
        geometryShader == IF w.gl.transformFeedbackActive
                          THEN StreamOutShaderSerial(program)
                          ELSE GeometryShaderSerial(program, mode)
        w1 == setDrawShaders(w, VertexShaderSerial(program), geometryShader,
                             PixelShaderSerial(program))
    IN  IF w.gl.failAt = "triggerDrawCallProgramRecompilation" THEN Abort(w)
        ELSE ClearShadersBit(Observe(w1, "setDrawShaders"))

\* syncProgram
syncProgram(w, mode) ==
    LET program == w.gl.program
        vertexShader == VertexShaderSerial(program)
        pixelShader == IF w.gl.ff["RASTERIZER_DISCARD_ENABLED"] # 0 THEN kEmptySerial
                       ELSE PixelShaderSerial(program)
        geometryShader == IF w.gl.transformFeedbackActive
                          THEN StreamOutShaderSerial(program)
                          ELSE GeometryShaderSerial(program, mode)
        w1 == setDrawShaders(w, vertexShader, geometryShader, pixelShader)
    IN  IF w.gl.failAt = "triggerDrawCallProgramRecompilation" THEN Abort(w)
        ELSE ClearShadersBit(Observe(w1, "setDrawShaders"))

\* ------------------------------------------------ vertex and index input
\* gl::RangeUI::extend
RangeExtend(range, value) ==
    [ low |-> IF value < range.low THEN value ELSE range.low,
      high |-> IF value >= range.high THEN value + 1 ELSE range.high ]

\* syncCurrentValueAttribs that clears the mark of every dirty attribute.
syncCurrentValueAttribs_ClearingAll(w) ==
    LET dirtyActiveAttribs ==
            ActiveAttribLocationsMask(w.gl.program) \cap w.sm.mDirtyCurrentValueAttribs
        stored == { i \in dirtyActiveAttribs : ~AttribEnabled(w.gl.vertexArray, i) }
    IN  IF dirtyActiveAttribs = { } THEN w
        ELSE [ w EXCEPT
                 !.sm.mDirtyCurrentValueAttribs = { },
                 !.sm.mCurrentValueAttribs =
                     [ i \in AttribSlots |-> IF i \in stored THEN 1 ELSE @[i] ] ]

\* syncCurrentValueAttribs
syncCurrentValueAttribs(w) ==
    LET dirtyActiveAttribs ==
            ActiveAttribLocationsMask(w.gl.program) \cap w.sm.mDirtyCurrentValueAttribs
        stored == { i \in dirtyActiveAttribs : ~AttribEnabled(w.gl.vertexArray, i) }
        Extended[i \in 0..MaxVertexAttribs] ==
            IF i = 0 THEN w.sm.mDirtyVertexBufferRange
            ELSE IF (i - 1) \in stored THEN RangeExtend(Extended[i - 1], i - 1)
            ELSE Extended[i - 1]
    IN  IF dirtyActiveAttribs = { } THEN w
        ELSE [ w EXCEPT
                 !.sm.mDirtyCurrentValueAttribs = @ \ dirtyActiveAttribs,
                 !.sm.mCurrentValueAttribs =
                     [ i \in AttribSlots |-> IF i \in stored THEN 1 ELSE @[i] ],
                 !.sm.mDirtyVertexBufferRange = Extended[MaxVertexAttribs] ]

\* syncTransformFeedbackBuffers
syncTransformFeedbackBuffers(w) ==
    IF ~w.gl.transformFeedbackActive
    THEN IF w.sm.mAppliedTFSerial # mEmptySerial
         THEN [ DeviceCall(w, "SOSetTargets", 0, 0)
                  EXCEPT !.dev.soTargets = 0, !.sm.mAppliedTFSerial = mEmptySerial ]
         ELSE w
    ELSE IF w.sm.mAppliedTFSerial = TransformFeedbackSerial
            /\ ~w.gl.transformFeedbackDirty
    THEN w
    ELSE [ DeviceCall(w, "SOSetTargets", 0, 1)
             EXCEPT !.dev.soTargets = TransformFeedbackSerial,
                    !.sm.mAppliedTFSerial = TransformFeedbackSerial,
                    !.gl.transformFeedbackDirty = FALSE ]

\* setInputLayoutInternal: serial 0 is nullptr
setInputLayoutInternal(w, serial) ==
    IF serial = 0
    THEN IF w.sm.mCurrentInputLayout # kEmptySerial
         THEN [ DeviceCall(w, "IASetInputLayout", 0, 1)
                  EXCEPT !.dev.inputLayout = 0, !.sm.mCurrentInputLayout = kEmptySerial ]
         ELSE w
    ELSE IF serial # w.sm.mCurrentInputLayout
    THEN [ DeviceCall(w, "IASetInputLayout", 0, 1)
             EXCEPT !.dev.inputLayout = serial, !.sm.mCurrentInputLayout = serial ]
    ELSE w

\* queueVertexBufferChange
queueVertexBufferChange(w, bufferIndex, buffer, stride, offset) ==
    IF \/ buffer # w.sm.mCurrentVertexBuffers[bufferIndex]
       \/ stride # w.sm.mCurrentVertexStrides[bufferIndex]
       \/ offset # w.sm.mCurrentVertexOffsets[bufferIndex]
    THEN [ w EXCEPT !.sm.mDirtyVertexBufferRange = RangeExtend(@, bufferIndex),
                    !.sm.mCurrentVertexBuffers[bufferIndex] = buffer,
                    !.sm.mCurrentVertexStrides[bufferIndex] = stride,
                    !.sm.mCurrentVertexOffsets[bufferIndex] = offset ]
    ELSE w

\* applyVertexBufferChanges that binds every slot when a slot is dirty
applyVertexBufferChanges_FullRange(w) ==
    LET range == w.sm.mDirtyVertexBufferRange
    IN  IF range.low >= range.high THEN w
        ELSE [ DeviceCall(w, "IASetVertexBuffers", 0, MaxVertexAttribs)
                 EXCEPT !.dev.vertexBuffer =
                            [ i \in AttribSlots |->
                                [ buffer |-> w.sm.mCurrentVertexBuffers[i],
                                  stride |-> w.sm.mCurrentVertexStrides[i],
                                  offset |-> w.sm.mCurrentVertexOffsets[i] ] ],
                        !.sm.mDirtyVertexBufferRange =
                            [ low |-> MaxVertexAttribs, high |-> 0 ] ]

\* applyVertexBufferChanges
applyVertexBufferChanges(w) ==
    LET range == w.sm.mDirtyVertexBufferRange
    IN  IF range.low >= range.high THEN w
        ELSE [ DeviceCall(w, "IASetVertexBuffers", range.low, range.high - range.low)
                 EXCEPT !.dev.vertexBuffer =
                            [ i \in AttribSlots |->
                                IF range.low <= i /\ i < range.high
                                THEN [ buffer |-> w.sm.mCurrentVertexBuffers[i],
                                       stride |-> w.sm.mCurrentVertexStrides[i],
                                       offset |-> w.sm.mCurrentVertexOffsets[i] ]
                                ELSE @[i] ],
                        !.sm.mDirtyVertexBufferRange =
                            [ low |-> MaxVertexAttribs, high |-> 0 ] ]

\* SortAttributesByLayout: the active attribute locations in semantic order
SortAttributesByLayout(program) ==
    [ i \in 1..Cardinality(ActiveAttribLocationsMask(program)) |-> i - 1 ]

\* syncIndexBuffer
syncIndexBuffer(w, buffer, indexFormat, offset) ==
    LET ib == [ buffer |-> buffer, format |-> indexFormat, offset |-> offset ]
    IN  IF ib # w.sm.mAppliedIB
        THEN [ DeviceCall(w, "IASetIndexBuffer", 0, 1)
                 EXCEPT !.dev.indexBuffer = ib, !.sm.mAppliedIB = ib ]
        ELSE w

\* setIndexBuffer
setIndexBuffer(w, buffer, indexFormat, offset) ==
    LET w1 == syncIndexBuffer(w, buffer, indexFormat, offset)
    IN  IF w1.sm.mAppliedIB # w.sm.mAppliedIB THEN invalidateIndexBuffer(w1) ELSE w1

\* GetReservedBufferCount
GetReservedBufferCount(usesPointSpriteEmulation) ==
    IF usesPointSpriteEmulation THEN 1 ELSE 0

\* programUsesInstancedPointSprites in applyVertexBuffers
ProgramUsesInstancedPointSprites(w) ==
    UsesPointSize(w.gl.program) /\ w.gl.usesInstancedPointSpriteEmulation

\* the attribute loop of applyVertexBuffers
RECURSIVE applyVertexBuffersLoop(_, _, _)
applyVertexBuffersLoop(w, firstVertex, attribIndex) ==
    LET reservedBuffers == GetReservedBufferCount(ProgramUsesInstancedPointSprites(w))
    IN  IF attribIndex >= MaxVertexAttribs - reservedBuffers THEN w
        ELSE LET vao == w.gl.vertexArray
                 present == attribIndex < Len(w.sm.mCurrentAttributes)
                 location == w.sm.mCurrentAttributes[attribIndex + 1]
                 buffer == IF ~present THEN 0
                           ELSE IF AttribEnabled(vao, location)
                           THEN AttribBuffer(vao, location)
                           ELSE CurrentValueBuffer(location)
                 stride == IF present THEN AttribStride(vao, location) ELSE 0
                 offset == IF present THEN AttribOffset(vao, location, firstVertex) ELSE 0
             IN  applyVertexBuffersLoop(
                     queueVertexBufferChange(w, reservedBuffers + attribIndex, buffer,
                                             stride, offset),
                     firstVertex, attribIndex + 1)

\* applyVertexBuffers.  With instanced point-sprite emulation the quad's
\* vertex buffer takes slot 0 and, for a GL_POINTS draw, the quad's index
\* buffer is applied; the trace notes an index buffer applied here.
applyVertexBuffers(w, firstVertex) ==
    LET instancedPointSpritesActive ==
            ProgramUsesInstancedPointSprites(w) /\ w.tr.mode = "GL_POINTS"
        Indices(w2) ==
            IF instancedPointSpritesActive
            THEN [ syncIndexBuffer(w2, PointSpriteIndexBuffer, "R16_UINT", 0)
                     EXCEPT !.tr.pointSpriteIndexBufferApplied =
                                \/ @
                                \/ w2.sm.mAppliedIB.buffer # PointSpriteIndexBuffer ]
            ELSE w2
        Sprites(w1) ==
            IF ProgramUsesInstancedPointSprites(w1)
            THEN Indices(queueVertexBufferChange(
                             w1, 0, PointSpriteVertexBuffer,
                             IF instancedPointSpritesActive
                             THEN kPointSpriteVertexStride ELSE 0,
                             0))
            ELSE w1
    IN  applyVertexBufferChanges(Sprites(applyVertexBuffersLoop(w, firstVertex, 0)))

\* FindFirstNonInstanced that returns the last attribute that is not instanced.
FindFirstNonInstanced_Last(currentAttributes) ==
    LET found == { index \in DOMAIN currentAttributes :
                     currentAttributes[index].divisor = 0 }
    IN  IF found = { } THEN 0
        ELSE CHOOSE index \in found : \A other \in found : other <= index

\* FindFirstNonInstanced: the position, from 1, of the first attribute with
\* divisor 0; 0 is Optional::Invalid
FindFirstNonInstanced(currentAttributes) ==
    LET found == { index \in DOMAIN currentAttributes :
                     currentAttributes[index].divisor = 0 }
    IN  IF found = { } THEN 0
        ELSE CHOOSE index \in found : \A other \in found : index <= other

\* std::swap of two elements of a list
Swap(list, i, j) ==
    [ k \in DOMAIN list |-> IF k = i THEN list[j] ELSE IF k = j THEN list[i] ELSE list[k] ]

\* The feature-level 9_3 step of syncVertexBuffersAndInputLayout on the
\* sorted attributes and their semantic indices.
FirstAttributeNotInstanced(currentAttributes, sortedSemanticIndices) ==
    LET index == FindFirstNonInstanced(currentAttributes)
    IN  IF /\ currentAttributes # << >>
           /\ currentAttributes[1].divisor > 0
           /\ index # 0
        THEN [ attributes |-> Swap(currentAttributes, 1, index),
               semanticIndices |-> Swap(sortedSemanticIndices, 1, index) ]
        ELSE [ attributes |-> currentAttributes,
               semanticIndices |-> sortedSemanticIndices ]

\* syncVertexBuffersAndInputLayout
syncVertexBuffersAndInputLayout(w, firstVertex) ==
    LET sorted == SortAttributesByLayout(w.gl.program)
        translated == [ i \in DOMAIN sorted |->
                          [ location |-> sorted[i],
                            divisor |-> AttribDivisor(w.gl.vertexArray, sorted[i]) ] ]
        swapped == IF w.gl.is9_3
                   THEN FirstAttributeNotInstanced(translated, sorted).attributes
                   ELSE translated
        w1 == [ w EXCEPT !.sm.mCurrentAttributes =
                             [ i \in DOMAIN swapped |-> swapped[i].location ] ]
        w2 == setInputLayoutInternal(
                  w1, InputLayoutSerial(w.gl.program, w.gl.vertexArray))
    IN  applyVertexBuffers(w2, firstVertex)

\* applyIndexBuffer
applyIndexBuffer(w) ==
    IF ~w.sm.mIndexBufferIsDirty THEN w
    ELSE IF w.gl.failAt = "applyIndexBuffer" THEN Abort(w)
    ELSE [ syncIndexBuffer(w, IndexBufferOf(w.gl.vertexArray), "R16_UINT", 0)
             EXCEPT !.sm.mIndexBufferIsDirty = FALSE ]

\* setPrimitiveTopologyInternal
setPrimitiveTopologyInternal(w, primitiveTopology) ==
    IF primitiveTopology # w.sm.mCurrentPrimitiveTopology
    THEN [ DeviceCall(w, "IASetPrimitiveTopology", 0, 1)
             EXCEPT !.dev.topology = primitiveTopology,
                    !.sm.mCurrentPrimitiveTopology = primitiveTopology ]
    ELSE w

\* syncPrimitiveTopology; a minimum draw count of -1 stands for "never draw"
syncPrimitiveTopology(w, mode) ==
    LET cullsEverything == w.gl.ff["CULL_FACE_ENABLED"] # 0 /\ w.gl.ff["CULL_FACE"] = MaxVal
    IN  IF mode = "GL_POINTS"
        THEN IF ~UsesPointSize(w.gl.program) /\ ~w.gl.transformFeedbackActive
             THEN [ w EXCEPT !.sm.mCurrentMinimumDrawCount = -1 ]
             ELSE setPrimitiveTopologyInternal(
                      [ w EXCEPT !.sm.mCurrentMinimumDrawCount = 1 ], "POINTLIST")
        ELSE setPrimitiveTopologyInternal(
                 [ w EXCEPT !.sm.mCurrentMinimumDrawCount =
                                IF cullsEverything THEN -1 ELSE 3 ],
                 "TRIANGLELIST")

\* ------------------------------------------------------------ updateState
\* processFramebufferInvalidation that leaves mRenderTargetIsDirty set.
processFramebufferInvalidation_KeepingFlag(w) ==
    LET fb == w.gl.framebuffer
        disableDepth == ~FramebufferHasDepth(fb) /\ FramebufferHasStencil(fb)
        disableStencil == FramebufferHasDepth(fb) /\ ~FramebufferHasStencil(fb)
        multiSample == FramebufferSamples(fb) # 0
        Samples(w3) ==
            IF multiSample # w3.sm.multiSample
            THEN [ SetDirtyBits(w3, { "RASTERIZER_STATE" })
                     EXCEPT !.sm.multiSample = multiSample ]
            ELSE w3
        Attachments(w2) ==
            Samples(IF \/ ~w2.sm.mCurDisableDepth.valid
                       \/ disableDepth # w2.sm.mCurDisableDepth.value
                       \/ ~w2.sm.mCurDisableStencil.valid
                       \/ disableStencil # w2.sm.mCurDisableStencil.value
                    THEN [ SetDirtyBits(w2, { "DEPTH_STENCIL_STATE" })
                             EXCEPT !.sm.mCurDisableDepth =
                                        [ valid |-> TRUE, value |-> disableDepth ],
                                    !.sm.mCurDisableStencil =
                                        [ valid |-> TRUE, value |-> disableStencil ] ]
                    ELSE w2)
    IN  IF ~w.sm.mRenderTargetIsDirty THEN w
        ELSE Attachments(
                 SetDirtyBits(
                     invalidateShaders(
                         SetDirtyBits(w,
                                      { "RENDER_TARGET" })),
                     { "BLEND_STATE" }))

\* checkPresentPath
checkPresentPath(w) ==
    LET presentPathFastActive == UsePresentPathFast(w.gl)
        colorBufferHeight == FirstAttachmentSize(w.gl).height
    IN  IF ~w.gl.presentPathFastEnabled THEN w
        ELSE IF \/ w.sm.mCurPresentPathFastEnabled # presentPathFastActive
                \/ /\ presentPathFastActive
                   /\ colorBufferHeight # w.sm.mCurPresentPathFastColorBufferHeight
        THEN invalidateViewport(
                 [ SetDirtyBits(w, { "SCISSOR_STATE", "RASTERIZER_STATE" })
                     EXCEPT !.sm.mCurPresentPathFastEnabled = presentPathFastActive,
                            !.sm.mCurPresentPathFastColorBufferHeight = colorBufferHeight ])
        ELSE w

\* processFramebufferInvalidation
processFramebufferInvalidation(w) ==
    LET fb == w.gl.framebuffer
        disableDepth == ~FramebufferHasDepth(fb) /\ FramebufferHasStencil(fb)
        disableStencil == FramebufferHasDepth(fb) /\ ~FramebufferHasStencil(fb)
        multiSample == FramebufferSamples(fb) # 0
        Samples(w3) ==
            IF multiSample # w3.sm.multiSample
            THEN [ SetDirtyBits(w3, { "RASTERIZER_STATE" })
                     EXCEPT !.sm.multiSample = multiSample ]
            ELSE w3
        Bounds(w4) ==
            IF /\ w4.gl.is9_3
               /\ FramebufferHasAttachment(fb)
               /\ w4.sm.mViewportBounds # FirstAttachmentSize(w4.gl)
            THEN invalidateViewport(
                     [ w4 EXCEPT !.sm.mViewportBounds = FirstAttachmentSize(w4.gl) ])
            ELSE w4
        Flags(w2) ==
            Samples(IF \/ ~w2.sm.mCurDisableDepth.valid
                       \/ disableDepth # w2.sm.mCurDisableDepth.value
                       \/ ~w2.sm.mCurDisableStencil.valid
                       \/ disableStencil # w2.sm.mCurDisableStencil.value
                    THEN [ SetDirtyBits(w2, { "DEPTH_STENCIL_STATE" })
                             EXCEPT !.sm.mCurDisableDepth =
                                        [ valid |-> TRUE, value |-> disableDepth ],
                                    !.sm.mCurDisableStencil =
                                        [ valid |-> TRUE, value |-> disableStencil ] ]
                    ELSE w2)
        Attachments(w5) == Bounds(checkPresentPath(Flags(w5)))
    IN  IF ~w.sm.mRenderTargetIsDirty THEN w
        ELSE Attachments(
                 SetDirtyBits(
                     invalidateShaders(
                         SetDirtyBits([ w EXCEPT !.sm.mRenderTargetIsDirty = FALSE ],
                                      { "RENDER_TARGET" })),
                     { "BLEND_STATE" }))

\* The steps before the snapshot without processFramebufferInvalidation.
PreSnapshotA_WithoutInvalidation(w) ==
    LET Swizzles(w3) ==
            IF ~w3.sm.mDirtySwizzles THEN w3
            ELSE IF w3.gl.failAt = "generateSwizzles" THEN Abort(w3)
            ELSE [ w3 EXCEPT !.sm.mDirtySwizzles = FALSE ]
        Uniforms(w2) ==
            Swizzles(IF w2.gl.uniformsDirty
                     THEN SetDirtyBits(w2, { "PROGRAM_UNIFORMS" }) ELSE w2)
        Mapping(w1) ==
            Uniforms(IF w1.gl.samplerMappingDirty
                     THEN invalidateTexturesAndSamplers(
                              [ w1 EXCEPT !.gl.samplerMappingDirty = FALSE ])
                     ELSE w1)
    IN  Mapping(w)

\* The steps of updateState before the snapshot, up to the swizzle
\* generation, which can fail.
PreSnapshotA(w) ==
    LET Swizzles(w3) ==
            IF ~w3.sm.mDirtySwizzles THEN w3
            ELSE IF w3.gl.failAt = "generateSwizzles" THEN Abort(w3)
            ELSE [ w3 EXCEPT !.sm.mDirtySwizzles = FALSE ]
        Uniforms(w2) ==
            Swizzles(IF w2.gl.uniformsDirty
                     THEN SetDirtyBits(w2, { "PROGRAM_UNIFORMS" }) ELSE w2)
        Mapping(w1) ==
            Uniforms(IF w1.gl.samplerMappingDirty
                     THEN invalidateTexturesAndSamplers(
                              [ w1 EXCEPT !.gl.samplerMappingDirty = FALSE ])
                     ELSE w1)
    IN  Mapping(processFramebufferInvalidation(w))

\* The steps of updateState from the sample-mask check to the draw-mode check.
PreSnapshotB(w, mode, firstVertex, isDrawElements) ==
    LET PointMode(w4) ==
            IF (mode = "GL_POINTS") # w4.sm.pointDrawMode
            THEN invalidateShaders(SetDirtyBits(w4, { "RASTERIZER_STATE" }))
            ELSE w4
        DrawMode(w3) ==
            IF w3.tr.failed THEN w3
            ELSE IF w3.sm.mLastAppliedDrawMode # mode
            THEN PointMode([ SetDirtyBits(w3, { "PRIMITIVE_TOPOLOGY" })
                               EXCEPT !.sm.mLastAppliedDrawMode = mode ])
            ELSE w3
        IndexBuffer(w2) == DrawMode(IF isDrawElements THEN applyIndexBuffer(w2) ELSE w2)
        FirstVertex(w1) ==
            IndexBuffer(IF \/ ~w1.sm.mLastFirstVertex.valid
                           \/ w1.sm.mLastFirstVertex.value # firstVertex
                        THEN invalidateInputLayout(
                                 [ w1 EXCEPT !.sm.mLastFirstVertex =
                                                 [ valid |-> TRUE, value |-> firstVertex ] ])
                        ELSE w1)
    IN  FirstVertex(IF w.gl.sampleMask # w.sm.mCurSampleMask
                    THEN SetDirtyBits(w, { "BLEND_STATE" }) ELSE w)

\* The synchronizer of one state group (the switch of the drain loop).
Synchronize(w, dirtyBit) ==
    CASE dirtyBit = "RENDER_TARGET" -> syncFramebuffer(w)
      [] dirtyBit = "VIEWPORT_STATE" -> syncViewport(w)
      [] dirtyBit = "SCISSOR_STATE" -> syncScissorRectangle(w)
      [] dirtyBit = "RASTERIZER_STATE" -> syncRasterizerState(w, w.tr.mode)
      [] dirtyBit = "BLEND_STATE" -> syncBlendState(w)
      [] dirtyBit = "DEPTH_STENCIL_STATE" -> syncDepthStencilState(w)
      [] dirtyBit = "TEXTURE_AND_SAMPLER_STATE" -> syncTextures(w)
      [] dirtyBit = "PROGRAM_UNIFORMS" -> applyUniforms(w)
      [] dirtyBit = "DRIVER_UNIFORMS" -> applyDriverUniforms(w)
      [] dirtyBit = "PROGRAM_UNIFORM_BUFFERS" -> syncUniformBuffers(w)
      [] dirtyBit = "SHADERS" -> syncProgram(w, w.tr.mode)
      [] dirtyBit = "CURRENT_VALUE_ATTRIBS" -> syncCurrentValueAttribs(w)
      [] dirtyBit = "TRANSFORM_FEEDBACK" -> syncTransformFeedbackBuffers(w)
      [] dirtyBit = "VERTEX_BUFFERS_AND_INPUT_LAYOUT" ->
            syncVertexBuffersAndInputLayout(w, w.tr.firstVertex)
      [] dirtyBit = "PRIMITIVE_TOPOLOGY" -> syncPrimitiveTopology(w, w.tr.mode)

\* A range-for that visits the highest bit first.
FirstDirtyBit_Highest(bits) ==
    CHOOSE b \in bits : \A c \in bits : GroupIndex(b) >= GroupIndex(c)

\* The bit the range-for over dirtyBitsCopy visits first: the lowest one.
FirstDirtyBit(bits) ==
    CHOOSE b \in bits : \A c \in bits : GroupIndex(b) <= GroupIndex(c)

\* The loop of updateState that goes on to the next dirty bit after an error.
RECURSIVE Drain_Continuing(_, _)
Drain_Continuing(w, remaining) ==
    IF remaining = { } \/ Len(w.tr.synced) = Cardinality(w.tr.snapshot) THEN w
    ELSE LET dirtyBit == FirstDirtyBit(remaining)
             Returned(w2) == IF w2.tr.failed THEN w2 ELSE Observe(w2, dirtyBit)
         IN  Drain_Continuing(
                 Returned(Synchronize([ w EXCEPT !.tr.synced = Append(@, dirtyBit) ],
                                      dirtyBit)),
                 remaining \ { dirtyBit })

\* for (auto dirtyBit : dirtyBitsCopy): each visited synchronizer is logged,
\* and the live set is observed when it returns.
RECURSIVE Drain(_, _)
Drain(w, remaining) ==
    IF remaining = { } \/ w.tr.failed THEN w
    ELSE LET dirtyBit == FirstDirtyBit(remaining)
             Returned(w2) == IF w2.tr.failed THEN w2 ELSE Observe(w2, dirtyBit)
         IN  Drain(Returned(Synchronize([ w EXCEPT !.tr.synced = Append(@, dirtyBit) ],
                                        dirtyBit)),
                   remaining \ { dirtyBit })

\* A snapshot of the bits as they were when updateState was called.
DirtyBitsCopy_AtCall(w) == w.tr.atCall

\* auto dirtyBitsCopy = mInternalDirtyBits
DirtyBitsCopy(w) == w.sm.mInternalDirtyBits

\* updateState: the whole call.  w.tr holds the draw parameters.
updateState(w) ==
    LET Loop(w3, dirtyBitsCopy) ==
            Drain(Observe([ w3 EXCEPT !.tr.afterPre = w3.sm.mInternalDirtyBits,
                                      !.tr.snapshot = dirtyBitsCopy,
                                      !.sm.mInternalDirtyBits = { } ],
                          "snapshot"),
                  dirtyBitsCopy)
        Snapshot(w2) == IF w2.tr.failed THEN w2 ELSE Loop(w2, DirtyBitsCopy(w2))
        Draw(w1) ==
            Snapshot(IF w1.tr.failed THEN w1
                     ELSE PreSnapshotB(w1, w.tr.mode, w.tr.firstVertex, w.tr.isDrawElements))
    IN  Draw(PreSnapshotA(w))

\* ---------------------------------------------------------------- actions
\* The world an operation starts from: the calls of the last one are forgotten.
World ==
    [ sm |-> sm, dev |-> [ dev EXCEPT !.calls = << >>, !.uploads = << >> ],
      gl |-> gl, tr |-> tr ]

\* The world with the logical state changed by the application.
WorldWith(newGL) == [ World EXCEPT !.gl = newGL ]

\* An environment operation that leaves world w.  kind is the gl::State dirty
\* bit of a notification; same says that its logical value was the cached one.
Operation(w, name, kind, same) ==
    /\ nOps < MaxOps
    /\ nOps + nPasses < MaxSteps
    /\ sm' = w.sm
    /\ dev' = w.dev
    /\ gl' = w.gl
    /\ tr' = tr
    /\ last' = [ name |-> name, kind |-> kind, same |-> same,
                 dirtyBefore |-> sm.mInternalDirtyBits,
                 args |-> << >>, before |-> NoBefore, failed |-> FALSE ]
    /\ hist' = IF name = "syncState"
               THEN [ hist EXCEPT !.pending = @ \cup { kind },
                                  !.pendingSinceSuccess = @ \cup { kind } ]
               ELSE hist
    /\ nOps' = nOps + 1
    /\ nPasses' = nPasses

\* syncState with one fixed-function bit, after the application set the value
NotifyFixedFunction ==
    \E kind \in FFKinds, v \in Val :
        Operation(syncState(WorldWith([ gl EXCEPT !.ff[kind] = v ]), kind, { }),
                  "syncState", kind, v = sm.mCur[kind])

NotifyDrawFramebufferBinding ==
    \E fb \in Framebuffers :
        Operation(syncState(WorldWith([ gl EXCEPT !.framebuffer = fb ]),
                            "DRAW_FRAMEBUFFER_BINDING", { }),
                  "syncState", "DRAW_FRAMEBUFFER_BINDING", fb = gl.framebuffer)

NotifyVertexArrayBinding ==
    \E vao \in VertexArrays :
        Operation(syncState(WorldWith([ gl EXCEPT !.vertexArray = vao ]),
                            "VERTEX_ARRAY_BINDING", { }),
                  "syncState", "VERTEX_ARRAY_BINDING", vao = gl.vertexArray)

NotifyUniformBufferBindings ==
    \E ubo \in UniformBufferObjects :
        Operation(syncState(WorldWith([ gl EXCEPT !.uniformBuffer = ubo ]),
                            "UNIFORM_BUFFER_BINDINGS", { }),
                  "syncState", "UNIFORM_BUFFER_BINDINGS", ubo = gl.uniformBuffer)

NotifyTextureBindings ==
    \E unit \in TextureSlots, texture \in 0..MaxTextureUnits :
        Operation(syncState(WorldWith([ gl EXCEPT !.completeTextures[unit] = texture ]),
                            "TEXTURE_BINDINGS", { }),
                  "syncState", "TEXTURE_BINDINGS", texture = gl.completeTextures[unit])

NotifySamplerBindings ==
    \E unit \in TextureSlots, sampler \in 0..1 :
        Operation(syncState(WorldWith([ gl EXCEPT !.samplers[unit] = sampler ]),
                            "SAMPLER_BINDINGS", { }),
                  "syncState", "SAMPLER_BINDINGS", sampler = gl.samplers[unit])

NotifyTransformFeedbackBinding ==
    \E active \in BOOLEAN :
        Operation(syncState(WorldWith([ gl EXCEPT !.transformFeedbackActive = active,
                                                  !.transformFeedbackDirty = TRUE ]),
                            "TRANSFORM_FEEDBACK_BINDING", { }),
                  "syncState", "TRANSFORM_FEEDBACK_BINDING",
                  active = gl.transformFeedbackActive)

NotifyProgramExecutable ==
    \E program \in Programs :
        Operation(syncState(WorldWith([ gl EXCEPT !.program = program ]),
                            "PROGRAM_EXECUTABLE", { }),
                  "syncState", "PROGRAM_EXECUTABLE", program = gl.program)

NotifyCurrentValues ==
    \E attribs \in (SUBSET AttribSlots) \ { { } } :
        Operation(syncState(World, "CURRENT_VALUES", attribs),
                  "syncState", "CURRENT_VALUES", FALSE)

\* ProgramD3D: a uniform was written; the sampler mapping changed
UniformsChanged ==
    Operation(WorldWith([ gl EXCEPT !.uniformsDirty = TRUE ]), "uniforms", "", FALSE)

SamplerMappingChanged ==
    Operation(WorldWith([ gl EXCEPT !.samplerMappingDirty = TRUE ]), "samplerMapping", "", FALSE)

\* gl::State: the sample mask changed (no dirty bit reaches syncState for it)
SampleMaskChanged ==
    \E mask \in 0..1 :
        Operation(WorldWith([ gl EXCEPT !.sampleMask = mask ]), "sampleMask", "", FALSE)

\* TextureStorage11: the swizzle of a bound texture changed
InvalidateSwizzles ==
    Operation(invalidateSwizzles(World), "invalidateSwizzles", "", FALSE)

\* The window surface of the default framebuffer is resized to, or from, zero.
DefaultFramebufferResized ==
    \E zero \in BOOLEAN :
        Operation(WorldWith([ gl EXCEPT !.defaultFramebufferZeroSize = zero ]),
                  "resize", "", FALSE)

\* A helper of the renderer (Clear11, Blit11) binds its own constant buffer,
\* or none, through the direct setters.
SetConstantBuffer ==
    \E stage \in Stages, slot \in CBSlots, serial \in { 0, HelperBufferSerial } :
        Operation(setConstantBuffer(World, stage, slot, serial), "setConstantBuffer", "", FALSE)

\* The plainest draw, every collaborator succeeding.
PlainDraw ==
    [ mode |-> "GL_TRIANGLES", firstVertex |-> 0, isDrawElements |-> FALSE, failAt |-> "none" ]

\* The inputs of an updateState call: the draw parameters and the call of a
\* collaborator that returns an error in it.  They differ from the plainest
\* draw in one field, or are the indexed draw whose index buffer fails.
DrawParams ==
    { p \in [ mode : DrawModes, firstVertex : 0..MaxFirstVertex, isDrawElements : BOOLEAN,
              failAt : FailPoints \cup { "none" } ] :
        \/ /\ Cardinality({ f \in DOMAIN PlainDraw : p[f] # PlainDraw[f] }) <= 1
           /\ p.failAt # "applyIndexBuffer"
        \/ p = [ PlainDraw EXCEPT !.isDrawElements = TRUE, !.failAt = "applyIndexBuffer" ] }

\* The trace record an updateState call starts from.
StartTrace(p) ==
    [ NoTrace EXCEPT
        !.ran = TRUE,
        !.mode = p.mode,
        !.firstVertex = p.firstVertex,
        !.isDrawElements = p.isDrawElements,
        !.repeat = /\ last.name = "updateState"
                   /\ tr.mode = p.mode
                   /\ tr.firstVertex = p.firstVertex
                   /\ tr.isDrawElements = p.isDrawElements
                   /\ gl.failAt = p.failAt,
        !.prevFailed = tr.failed,
        !.pointSpriteIndexBufferApplied = FALSE,
        !.ibForeignAtCall = hist.ibForeign,
        !.bypassedSinceSuccess = hist.bypassedSinceSuccess,
        !.bypassedSincePass = hist.bypassedSincePass,
        !.prevUndrained =
            IF last.name = "updateState" /\ tr.failed /\ tr.synced # << >>
            THEN tr.snapshot \ { tr.synced[i] : i \in 1..(Len(tr.synced) - 1) }
            ELSE { },
        !.atCall = sm.mInternalDirtyBits,
        !.before = [ mCur |-> sm.mCur, mCurSampleMask |-> sm.mCurSampleMask,
                     pixelSampler |-> sm.mCurSamplerStates["Fragment"][0],
                     forcePixelSampler |-> sm.mForceSetSamplerStates["Fragment"][0],
                     dirtyCurrentValueAttribs |-> sm.mDirtyCurrentValueAttribs ],
        !.notified = hist.pending,
        !.notifiedSinceSuccess = hist.pendingSinceSuccess ]

\* StateManager11::updateState, called for a draw
UpdateState ==
    \E p \in DrawParams :
        LET Return(w) ==
                /\ sm' = w.sm
                /\ dev' = w.dev
                /\ gl' = w.gl
                /\ tr' = w.tr
                /\ hist' = [ hist EXCEPT
                               !.pending = { },
                               !.pendingSinceSuccess = IF w.tr.failed THEN @ ELSE { },
                               !.bypassedSinceSuccess = IF w.tr.failed THEN @ ELSE { },
                               !.bypassedSincePass = { },
                               !.ibForeign =
                                   IF w.tr.pointSpriteIndexBufferApplied THEN TRUE
                                   ELSE IF p.isDrawElements /\ ~w.tr.failed THEN FALSE
                                   ELSE @ ]
        IN  /\ nPasses < MaxPasses
            /\ nOps + nPasses < MaxSteps
            /\ Return(updateState([ World EXCEPT !.tr = StartTrace(p),
                                                 !.gl.failAt = p.failAt ]))
            /\ last' = [ name |-> "updateState", kind |-> "", same |-> FALSE,
                         dirtyBefore |-> sm.mInternalDirtyBits,
                         args |-> << >>, before |-> NoBefore, failed |-> FALSE ]
            /\ nOps' = nOps
            /\ nPasses' = nPasses + 1

Next ==
    \/ NotifyFixedFunction
    \/ NotifyDrawFramebufferBinding
    \/ NotifyVertexArrayBinding
    \/ NotifyUniformBufferBindings
    \/ NotifyTextureBindings
    \/ NotifySamplerBindings
    \/ NotifyTransformFeedbackBinding
    \/ NotifyProgramExecutable
    \/ NotifyCurrentValues
    \/ UniformsChanged
    \/ SamplerMappingChanged
    \/ SampleMaskChanged
    \/ InvalidateSwizzles
    \/ DefaultFramebufferResized
    \/ SetConstantBuffer
    \/ UpdateState

Spec == Init /\ [][Next]_vars

\* ---------------------------------------------------------------- queries
\* onBeginQuery
onBeginQuery(w, query) == [ w EXCEPT !.sm.mCurrentQueries = @ \cup { query } ]

\* onDeleteQueryObject
onDeleteQueryObject(w, query) == [ w EXCEPT !.sm.mCurrentQueries = @ \ { query } ]

\* Query11::pause and Query11::resume, which can return an error
PauseQuery(w, query) ==
    IF w.gl.failAt = "pause" THEN Abort(w) ELSE DeviceCall(w, "Query11::pause", query, 1)

ResumeQuery(w, query) ==
    IF w.gl.failAt = "resume" THEN Abort(w) ELSE DeviceCall(w, "Query11::resume", query, 1)

\* onMakeCurrent, the first loop: the tracked queries in the order of the set
RECURSIVE PauseLoop(_, _)
PauseLoop(w, queries) ==
    IF w.tr.failed \/ queries = { } THEN w
    ELSE LET query == CHOOSE q \in queries : \A other \in queries : q <= other
         IN  PauseLoop(PauseQuery(w, query), queries \ { query })

\* onMakeCurrent, the second loop from the type of index typeIndex on
RECURSIVE ResumeLoop(_, _)
ResumeLoop(w, typeIndex) ==
    IF w.tr.failed \/ typeIndex > Len(QueryTypes) THEN w
    ELSE LET query == w.gl.activeQuery[QueryTypes[typeIndex]]
             Insert(w1) ==
                 IF w1.tr.failed THEN w1 ELSE onBeginQuery(w1, query)
         IN  ResumeLoop(IF query # 0 THEN Insert(ResumeQuery(w, query)) ELSE w,
                        typeIndex + 1)

\* onMakeCurrent without mCurrentQueries.clear().
onMakeCurrent_WithoutClear(w) ==
    LET Resume(w1) == IF w1.tr.failed THEN w1 ELSE ResumeLoop(w1, 1)
    IN  Resume(PauseLoop(w, w.sm.mCurrentQueries))

\* onMakeCurrent
onMakeCurrent(w) ==
    LET Resume(w1) ==
            IF w1.tr.failed THEN w1
            ELSE ResumeLoop([ w1 EXCEPT !.sm.mCurrentQueries = { } ], 1)
    IN  Resume(PauseLoop(w, w.sm.mCurrentQueries))

\* --------------------------------------------------- the direct setters
\* The state group whose device state a direct setter writes without
\* recording it in the cache, as a set; empty for every other method.
SetterGroup(name) ==
    IF name = "setDepthStencilState" THEN { "DEPTH_STENCIL_STATE" }
    ELSE IF name = "setSimpleBlendState" THEN { "BLEND_STATE" }
    ELSE IF name = "setRasterizerState" THEN { "RASTERIZER_STATE" }
    ELSE IF name = "setSimpleViewport" THEN { "VIEWPORT_STATE" }
    ELSE IF name \in { "setSimpleScissorRect", "setScissorRectD3D" } THEN { "SCISSOR_STATE" }
    ELSE IF name \in { "setRenderTarget", "setRenderTargets" } THEN { "RENDER_TARGET" }
    ELSE IF name = "setSimplePixelTextureAndSampler" THEN { "TEXTURE_AND_SAMPLER_STATE" }
    ELSE { }

\* The last SequenceLength calls of a list of calls.
RECURSIVE LastCalls(_)
LastCalls(calls) ==
    IF Len(calls) <= SequenceLength THEN calls ELSE LastCalls(Tail(calls))

\* A call of a method of StateManager11 outside updateState, leaving world w:
\* the arguments and the object and device it found are recorded.
DirectCallWithin(w, name, args, maxCalls) ==
    /\ nOps < maxCalls
    /\ sm' = w.sm
    /\ dev' = w.dev
    /\ gl' = w.gl
    /\ tr' = tr
    /\ last' = [ name |-> name, kind |-> "", same |-> FALSE,
                 dirtyBefore |-> sm.mInternalDirtyBits, args |-> args,
                 before |-> [ sm |-> sm, dev |-> dev, hist |-> hist ],
                 failed |-> w.tr.failed ]
    /\ hist' = [ hist EXCEPT
                   !.everBound =
                       @ \cup { b \in Stages \X TextureSlots : w.dev.srv[b[1]][b[2]] # 0 }
                         \cup { b \in { "Compute" } \X TextureSlots : w.dev.uav[b[2]] # 0 },
                   !.recorded =
                       IF name = "updateBuffer"
                       THEN [ @ EXCEPT ![args[1]] = UsedSamplerRange(args[2], args[1]) ]
                       ELSE @,
                   !.sequence =
                       IF name = "updateBuffer"
                       THEN [ @ EXCEPT ![args[1]] =
                                LastCalls(Append(@,
                                    [ range |-> UsedSamplerRange(args[2], args[1]),
                                      clean |-> ~sm.mShaderConstants.dirty[args[1]],
                                      count |->
                                          sm.mShaderConstants.numActiveSamplers[args[1]],
                                      zeroed |-> hist.zeroed[args[1]],
                                      failed |-> w.tr.failed,
                                      uploaded |-> w.dev.uploads # << >> ])) ]
                       ELSE @,
                   !.zeroed =
                       [ s \in Stages |->
                           IF name = "updateBuffer" /\ args[1] = s THEN FALSE
                           ELSE \/ @[s]
                                \/ name = "markDirty"
                                \/ w.sm.mShaderConstants.baseLevel[s]
                                       # sm.mShaderConstants.baseLevel[s] ],
                   !.samplerCalls =
                       IF name = "setSamplerState"
                       THEN [ @ EXCEPT ![args[1]][args[2]] = @ + 1 ]
                       ELSE @,
                   !.queued =
                       IF name = "applyVertexBufferChanges" THEN { }
                       ELSE IF /\ name = "queueVertexBufferChange"
                               /\ \/ args[2] # sm.mCurrentVertexBuffers[args[1]]
                                  \/ args[3] # sm.mCurrentVertexStrides[args[1]]
                                  \/ args[4] # sm.mCurrentVertexOffsets[args[1]]
                       THEN @ \cup { args[1] }
                       ELSE @,
                   !.stored =
                       IF name = "applyVertexBufferChanges" THEN { }
                       ELSE IF name = "syncCurrentValueAttribs"
                       THEN @ \cup { i \in sm.mDirtyCurrentValueAttribs
                                              \ w.sm.mDirtyCurrentValueAttribs :
                                        ~AttribEnabled(args[2], i) }
                       ELSE @,
                   !.invalidated =
                       IF name = "applyVertexBufferChanges" THEN FALSE
                       ELSE @ \/ name = "invalidateVertexBuffer",
                   !.ibForeign =
                       @ \/ (name = "setIndexBuffer" /\ w.sm.mAppliedIB # sm.mAppliedIB),
                   !.bypassedSinceSuccess = @ \cup SetterGroup(name),
                   !.bypassedSincePass = @ \cup SetterGroup(name) ]
    /\ nOps' = nOps + 1
    /\ nPasses' = nPasses

DirectCall(w, name, args) == DirectCallWithin(w, name, args, MaxCalls)

\* setShaderResource
setShaderResource(w, stage, resourceSlot, srv) ==
    SetDirtyBits(setShaderResourceInternal(w, stage, resourceSlot, srv),
                 { "TEXTURE_AND_SAMPLER_STATE" })

SetShaderResource ==
    \E stage \in Stages, resourceSlot \in TextureSlots, srv \in { 0 } \cup DirectViews :
        DirectCall(setShaderResource(World, stage, resourceSlot, srv),
                   "setShaderResource", << stage, resourceSlot, srv >>)

ClearSRVs ==
    \E stage \in Stages, rangeStart \in 0..MaxTextureUnits, rangeEnd \in 0..MaxTextureUnits :
        /\ rangeStart <= rangeEnd
        /\ DirectCall(clearSRVs(World, stage, rangeStart, rangeEnd),
                      "clearSRVs", << stage, rangeStart, rangeEnd >>)

\* setTextureForImage, the branch of an image that is written
SetUnorderedAccessView ==
    \E resourceSlot \in TextureSlots, uav \in { 11, 13 } :
        DirectCall(setUnorderedAccessViewInternal(World, resourceSlot, uav),
                   "setUnorderedAccessView", << resourceSlot, uav >>)

ClearUAVs ==
    \E rangeStart \in 0..MaxTextureUnits, rangeEnd \in 0..MaxTextureUnits :
        /\ rangeStart <= rangeEnd
        /\ DirectCall(clearUAVs(World, rangeStart, rangeEnd),
                      "clearUAVs", << rangeStart, rangeEnd >>)

SetRenderTarget ==
    \E rtv \in { 0 } \cup RenderTargetViews, dsv \in { 0 } \cup RenderTargetViews :
        DirectCall(setRenderTarget(World, rtv, dsv), "setRenderTarget", << << rtv >>, dsv >>)

SetRenderTargets ==
    \E rtvs \in { << >>, << 321 >>, << 321, 322 >> }, dsv \in { 0, 322 } :
        DirectCall(setRenderTargets(World, rtvs, dsv), "setRenderTargets", << rtvs, dsv >>)

\* syncFramebuffer with the draw framebuffer the application has bound and,
\* for the user framebuffer, the image it has attached as colour buffer
SyncFramebuffer ==
    \E fb \in Framebuffers, resource \in { 101, 102, 103 },
       type \in { "_2D", "_2DArray", "CubeMap", "_3D" },
       mipIndex \in { 0, 1 }, layerIndex \in { -1, 1 } :
        LET newGL == [ gl EXCEPT !.framebuffer = fb,
                                 !.colorAttachment =
                                     [ resource |-> resource,
                                       index |-> ImageIndex(type, mipIndex, layerIndex) ] ]
        IN  DirectCall(syncFramebuffer(WorldWith(newGL)), "syncFramebuffer",
                       << FramebufferColorbuffer(newGL) >>)

\* The specification of views bound for sampling and images attached for
\* rendering.
AttachmentNext ==
    \/ SetShaderResource
    \/ SyncFramebuffer

AttachmentSpec == Init /\ [][AttachmentNext]_vars

\* setSamplerState, as applyTextures calls it for one sampler of a stage
SetSamplerState ==
    \E stage \in Stages, index \in TextureSlots, texture \in Textures,
       samplerState \in { 0, 1 }, failAt \in { "none", "getSamplerState" } :
        DirectCall(setSamplerState(WorldWith([ gl EXCEPT !.failAt = failAt ]),
                                   stage, index, texture, samplerState),
                   "setSamplerState", << stage, index, texture, samplerState >>)

\* ShaderConstants11::updateBuffer, as applyDriverUniforms calls it for one
\* stage with the current program
UpdateBuffer ==
    \E stage \in Stages, program \in Programs, failAt \in { "none", "mapResource" } :
        DirectCall(updateBuffer(WorldWith([ gl EXCEPT !.program = program,
                                                      !.failAt = failAt ]), stage),
                   "updateBuffer", << stage, program >>)

MarkDirty == DirectCall(markDirty(World), "markDirty", << >>)

\* The application binds a draw framebuffer with depth and stencil, with
\* depth only or with stencil only, and the binding is notified
BindDrawFramebuffer ==
    \E fb \in Framebuffers \cup { 2 } :
        Operation(syncState(WorldWith([ gl EXCEPT !.framebuffer = fb ]),
                            "DRAW_FRAMEBUFFER_BINDING", { }),
                  "syncState", "DRAW_FRAMEBUFFER_BINDING", fb = gl.framebuffer)

\* The specification of the depth and stencil override flags.
OverrideNext ==
    \/ BindDrawFramebuffer
    \/ NotifyFixedFunction
    \/ UpdateState

OverrideSpec == Init /\ [][OverrideNext]_vars

\* Query11::beginQuery: the query becomes the active one of its type
BeginQuery ==
    \E query \in Queries :
        DirectCall(onBeginQuery(WorldWith([ gl EXCEPT !.activeQuery[QueryTypeOf(query)] =
                                                         query ]),
                                query),
                   "onBeginQuery", << query >>)

\* Query11's destructor
DeleteQueryObject ==
    \E query \in Queries :
        DirectCall(onDeleteQueryObject(
                       WorldWith([ gl EXCEPT !.activeQuery[QueryTypeOf(query)] =
                                                IF @ = query THEN 0 ELSE @ ]),
                       query),
                   "onDeleteQueryObject", << query >>)

\* A context with its own active queries is made current
MakeCurrent ==
    \E context \in ContextQueries, failAt \in { "none", "pause", "resume" } :
        DirectCall(onMakeCurrent(WorldWith([ gl EXCEPT !.activeQuery = context,
                                                       !.failAt = failAt ])),
                   "onMakeCurrent", << context >>)

\* The specification of the tracked queries.
QueryNext ==
    \/ BeginQuery
    \/ DeleteQueryObject
    \/ MakeCurrent

QuerySpec == Init /\ [][QueryNext]_vars

\* A helper pass of the renderer binds its source texture and its sampler
SetSimplePixelTextureAndSampler ==
    \E srv \in { 11 }, samplerState \in { 0, 1, 7 } :
        DirectCall(setSimplePixelTextureAndSampler(World, srv, samplerState),
                   "setSimplePixelTextureAndSampler", << srv, samplerState >>)

\* The specification of the pixel sampler of slot 0.
PixelSamplerNext ==
    \/ SetSimplePixelTextureAndSampler
    \/ UpdateState

PixelSamplerSpec == Init /\ [][PixelSamplerNext]_vars

\* updateBuffer in a run long enough for a call followed by three more
UpdateBufferInSequence ==
    \E stage \in Stages, program \in Programs, failAt \in { "none", "mapResource" } :
        DirectCallWithin(updateBuffer(WorldWith([ gl EXCEPT !.program = program,
                                                            !.failAt = failAt ]), stage),
                         "updateBuffer", << stage, program >>, MaxSequenceCalls)

\* The specification of the shader constants.
ShaderConstantsNext ==
    \/ UpdateBufferInSequence
    \/ SetSamplerState
    \/ MarkDirty

ShaderConstantsSpec == Init /\ [][ShaderConstantsNext]_vars

\* The specification of the sampler states and the shader constants.
SamplerNext ==
    \/ SetSamplerState
    \/ UpdateBuffer
    \/ MarkDirty

SamplerSpec == Init /\ [][SamplerNext]_vars

\* queueVertexBufferChange, as applyVertexBuffers calls it for one slot
QueueVertexBufferChange ==
    \E bufferIndex \in AttribSlots, buffer \in { 0, 1 }, stride \in { 0, 4 },
       offset \in { 0, 8 } :
        DirectCall(queueVertexBufferChange(World, bufferIndex, buffer, stride, offset),
                   "queueVertexBufferChange", << bufferIndex, buffer, stride, offset >>)

ApplyVertexBufferChanges ==
    DirectCall(applyVertexBufferChanges(World), "applyVertexBufferChanges", << >>)

InvalidateVertexBuffer ==
    DirectCall(invalidateVertexBuffer(World), "invalidateVertexBuffer", << >>)

\* syncCurrentValueAttribs with the program and vertex array that are bound
SyncCurrentValueAttribs ==
    \E program \in Programs, vertexArray \in VertexArrays :
        DirectCall(syncCurrentValueAttribs(
                       WorldWith([ gl EXCEPT !.program = program,
                                             !.vertexArray = vertexArray ])),
                   "syncCurrentValueAttribs", << program, vertexArray >>)

\* The specification of the queue of vertex buffer changes.
VertexBufferNext ==
    \/ QueueVertexBufferChange
    \/ ApplyVertexBufferChanges
    \/ InvalidateVertexBuffer
    \/ SyncCurrentValueAttribs

VertexBufferSpec == Init /\ [][VertexBufferNext]_vars

\* updateState's first step, after the application bound a draw framebuffer
\* and the binding was notified (invalidateRenderTarget) any number of times
ProcessFramebufferInvalidation ==
    \E fb \in Framebuffers \cup { 2 }, times \in 0..2 :
        /\ times = 0 => fb = gl.framebuffer
        /\ LET w0 == WorldWith([ gl EXCEPT !.framebuffer = fb ])
               w1 == IF times > 0 THEN invalidateRenderTarget(w0) ELSE w0
               w2 == IF times > 1 THEN invalidateRenderTarget(w1) ELSE w1
           IN  DirectCall(processFramebufferInvalidation(w2),
                          "processFramebufferInvalidation", << fb, times >>)

\* syncDepthStencilState with the depth-stencil state the application has set;
\* updateState calls it after processFramebufferInvalidation
SyncDepthStencilState ==
    \E kind \in DepthStencilKinds, v \in Val, failAt \in { "none", "getDepthStencilState" } :
        /\ sm.mCurDisableDepth.valid /\ sm.mCurDisableStencil.valid
        /\ DirectCall(syncDepthStencilState(WorldWith([ gl EXCEPT !.ff[kind] = v,
                                                                  !.failAt = failAt ])),
                      "syncDepthStencilState", << kind, v >>)

\* A helper pass of the renderer binds its own index buffer
SetIndexBuffer ==
    \E buffer \in { 0, 650 }, offset \in { 0, 2 } :
        DirectCall(setIndexBuffer(World, buffer, "R16_UINT", offset),
                   "setIndexBuffer", << buffer, "R16_UINT", offset >>)

\* A context on a device with or without the instanced point-sprite
\* emulation workaround.
IndexInit ==
    /\ \E stencilFunc \in Val : sm = InitSM(stencilFunc)
    /\ dev = InitDevice
    /\ \E emulation \in BOOLEAN :
           gl = [ InitGL EXCEPT !.usesInstancedPointSpriteEmulation = emulation ]
    /\ tr = NoTrace
    /\ last = NoOperation
    /\ hist = NoHistory
    /\ nOps = 0
    /\ nPasses = 0

\* The specification of the applied index buffer.
IndexNext ==
    \/ NotifyProgramExecutable
    \/ NotifyVertexArrayBinding
    \/ SetIndexBuffer
    \/ UpdateState

IndexSpec == IndexInit /\ [][IndexNext]_vars

\* syncUniformBuffers with the program and the uniform buffer binding the
\* application has made current
SyncUniformBuffers ==
    \E program \in Programs, ubo \in UniformBufferObjects :
        DirectCall(syncUniformBuffers(WorldWith([ gl EXCEPT !.program = program,
                                                            !.uniformBuffer = ubo ])),
                   "syncUniformBuffers", << program, ubo >>)

\* The specification of the constant-buffer slots.
UniformBufferNext ==
    \/ SyncUniformBuffers
    \/ SetConstantBuffer

UniformBufferSpec == Init /\ [][UniformBufferNext]_vars

\* The subject messages of a buffer.
SubjectMessages == { "STORAGE_CHANGED", "CONTENTS_CHANGED" }

\* A uniform buffer sends a message to the observer bindings bound to it.
BufferStateChange ==
    \E buffer \in UniformBufferObjects \ { 0 }, message \in SubjectMessages :
        LET observed == \E stage \in Stages, i \in 0..(MaxUniformBlocks - 1) :
                            sm.mConstantBufferObserver[stage][i] = buffer
        IN  DirectCall(IF observed THEN onSubjectStateChange(World, message) ELSE World,
                       "onStateChange", << buffer, message >>)

\* The specification of the constant-buffer observer.
ObserverNext ==
    \/ SyncUniformBuffers
    \/ BufferStateChange
    \/ UpdateState

ObserverSpec == Init /\ [][ObserverNext]_vars

\* syncViewport with the viewport the application has set, the draw
\* framebuffer it has bound and the offsets and bounds that
\* syncState and processFramebufferInvalidation recorded for it
SyncViewport ==
    \E x \in { -5, 0, 3 }, y \in { 0, 3 }, width \in { 0, 2, 6 }, height \in { 2, 6 },
       offset \in { 0, 1 }, fb \in { 0, 3 },
       default \in { << 0, 0 >>, << 3, 0 >>, << 8, 8 >> } :
        /\ nOps < MaxSingleCalls
        /\ FramebufferHasAttachment(fb) => default = << 0, 0 >>
        /\ LET newGL == [ gl EXCEPT
                            !.viewport = [ x |-> x, y |-> y, width |-> width,
                                           height |-> height ],
                            !.framebuffer = fb,
                            !.framebufferDefaultSize =
                                [ width |-> default[1], height |-> default[2] ] ]
               w == [ WorldWith(newGL) EXCEPT
                        !.sm.mViewportOffsets = << [ x |-> offset, y |-> 0 ] >>,
                        !.sm.mViewportBounds =
                            IF gl.is9_3 THEN [ width |-> 2, height |-> 2 ] ELSE @ ]
           IN  DirectCall(syncViewport(w), "syncViewport",
                          << newGL.viewport, offset, fb, default >>)

\* A context on a device of feature level 9_3 or above it.
FeatureLevelInit ==
    /\ \E stencilFunc \in Val : sm = InitSM(stencilFunc)
    /\ dev = InitDevice
    /\ \E is9_3 \in BOOLEAN : gl = [ InitGL EXCEPT !.is9_3 = is9_3 ]
    /\ tr = NoTrace
    /\ last = NoOperation
    /\ hist = NoHistory
    /\ nOps = 0
    /\ nPasses = 0

ViewportNext == SyncViewport

\* The specification of the viewport rectangles.
ViewportSpec == FeatureLevelInit /\ [][ViewportNext]_vars

\* The feature-level 9_3 step of syncVertexBuffersAndInputLayout, on a list of
\* sorted attributes (location i - 1 at position i, any divisors) and the
\* semantic indices SortAttributesByLayout paired them with
SortedAttributesOn9_3 ==
    \E n \in 0..MaxSortedAttribs :
        \E divisors \in [ 1..n -> 0..2 ], semantics \in [ 1..n -> 0..(MaxSortedAttribs - 1) ] :
            /\ nOps < MaxSingleCalls
            /\ gl.is9_3
            /\ \A i, j \in 1..n : semantics[i] = semantics[j] => i = j
            /\ LET currentAttributes ==
                       [ i \in 1..n |-> [ location |-> i - 1, divisor |-> divisors[i] ] ]
                   result == FirstAttributeNotInstanced(currentAttributes, semantics)
               IN  DirectCall([ World EXCEPT
                                  !.sm.mCurrentAttributes =
                                      [ i \in 1..n |-> result.attributes[i].location ] ],
                              "syncVertexBuffersAndInputLayout",
                              << currentAttributes, semantics, result >>)

AttribSortNext == SortedAttributesOn9_3

\* The specification of the sorted attributes on feature level 9_3.
AttribSortSpec == FeatureLevelInit /\ [][AttribSortNext]_vars

\* The specification of draw-framebuffer bindings between draws.
InvalidationNext ==
    \/ NotifyDrawFramebufferBinding
    \/ UpdateState

InvalidationSpec == Init /\ [][InvalidationNext]_vars

\* The specification of the depth-stencil state and the attachment overrides.
DepthStencilNext ==
    \/ ProcessFramebufferInvalidation
    \/ SyncDepthStencilState

DepthStencilSpec == Init /\ [][DepthStencilNext]_vars

\* The specification of the view setters.
\* The state objects and rectangles of a helper pass (Clear11, Blit11).
HelperStates == { 0, 7 }

SetDepthStencilState ==
    \E depthStencilState \in HelperStates, stencilRef \in { 0, 1 } :
        /\ nOps < MaxOps
        /\ DirectCall(setDepthStencilState(World, depthStencilState, stencilRef),
                      "setDepthStencilState", << depthStencilState, stencilRef >>)

SetSimpleBlendState ==
    \E blendState \in HelperStates :
        /\ nOps < MaxOps
        /\ DirectCall(setSimpleBlendState(World, blendState),
                      "setSimpleBlendState", << blendState >>)

SetRasterizerState ==
    \E rasterizerState \in HelperStates :
        /\ nOps < MaxOps
        /\ DirectCall(setRasterizerState(World, rasterizerState),
                      "setRasterizerState", << rasterizerState >>)

SetSimpleViewport ==
    \E width \in { 1, 7 } :
        /\ nOps < MaxOps
        /\ DirectCall(setSimpleViewport(World, width, width),
                      "setSimpleViewport", << width, width >>)

SetSimpleScissorRect ==
    \E glRect \in { 1, 7 } :
        /\ nOps < MaxOps
        /\ DirectCall(setScissorRectD3D(World, glRect),
                      "setSimpleScissorRect", << glRect >>)

\* The application enables or disables the scissor test.
NotifyScissorTest ==
    \E v \in { 0, 1 } :
        Operation(syncState(WorldWith([ gl EXCEPT !.ff["SCISSOR_TEST_ENABLED"] = v ]),
                            "SCISSOR_TEST_ENABLED", { }),
                  "syncState", "SCISSOR_TEST_ENABLED", v = sm.mCur["SCISSOR_TEST_ENABLED"])

\* The draws of an application with helper passes of the renderer between
\* them.
SetterNext ==
    \/ SetDepthStencilState
    \/ SetSimpleBlendState
    \/ SetRasterizerState
    \/ SetSimpleViewport
    \/ SetSimpleScissorRect
    \/ SetRenderTarget
    \/ NotifyScissorTest
    \/ DefaultFramebufferResized
    \/ UpdateState

SetterSpec == Init /\ [][SetterNext]_vars

\* The viewport rectangle an abstract viewport value stands for.
ViewportOf(v) ==
    IF v = 0 THEN [ x |-> 0, y |-> 0, width |-> 2, height |-> 2 ]
    ELSE [ x |-> 1, y |-> 1, width |-> 6, height |-> 6 ]

\* syncState after the application changed the viewport or the depth range
NotifyViewport ==
    \E kind \in ViewportKinds, v \in Val :
        Operation(syncState(WorldWith([ gl EXCEPT
                                          !.ff[kind] = v,
                                          !.viewport = IF kind = "VIEWPORT"
                                                       THEN ViewportOf(v) ELSE @ ]),
                            kind, { }),
                  "syncState", kind, v = sm.mCur[kind])

\* A renderer of either feature level, presenting with or without a copy.
RendererInit ==
    /\ \E stencilFunc \in Val : sm = InitSM(stencilFunc)
    /\ dev = InitDevice
    /\ \E is9_3 \in BOOLEAN, presentPathFast \in BOOLEAN :
           gl = [ InitGL EXCEPT !.is9_3 = is9_3,
                                !.presentPathFastEnabled = presentPathFast ]
    /\ tr = NoTrace
    /\ last = NoOperation
    /\ hist = NoHistory
    /\ nOps = 0
    /\ nPasses = 0

\* Draws between changes of the viewport, the depth range and the draw
\* framebuffer.
ViewportConstantsNext ==
    \/ NotifyViewport
    \/ NotifyDrawFramebufferBinding
    \/ UpdateState

ViewportConstantsSpec == RendererInit /\ [][ViewportConstantsNext]_vars

\* A helper binds or unbinds a view of the vertex stage.
SetVertexShaderResource ==
    \E resourceSlot \in TextureSlots, srv \in { 0, 11 } :
        DirectCallWithin(setShaderResource(World, "Vertex", resourceSlot, srv),
                         "setShaderResource", << "Vertex", resourceSlot, srv >>,
                         MaxTextureCalls)

\* applyTextures of the vertex stage, as syncTextures calls it with the
\* program the application has made current
ApplyTextures ==
    \E program \in Programs, failAt \in { "none", "getSamplerState" } :
        DirectCallWithin(applyTextures(WorldWith([ gl EXCEPT !.program = program,
                                                            !.failAt = failAt ]),
                                       "Vertex"),
                         "applyTextures", << "Vertex", program >>, MaxTextureCalls)

TextureNext ==
    \/ SetVertexShaderResource
    \/ ApplyTextures

TextureSpec == Init /\ [][TextureNext]_vars

ViewNext ==
    \/ SetShaderResource
    \/ ClearSRVs
    \/ SetUnorderedAccessView
    \/ ClearUAVs
    \/ SetRenderTarget
    \/ SetRenderTargets

ViewSpec == Init /\ [][ViewNext]_vars

\* ----------------------------------------------------------------- claims
\* The call of a direct setter that the state was left by.
Called(name) == last.name = name

\* min(rangeEnd, highestUsed) of a clear call with the view cache it found.
ClearHigh(rangeEnd, cache) ==
    IF rangeEnd < cache.highestUsed THEN rangeEnd ELSE cache.highestUsed

\* The calls of a clear are at most one, inside [rangeStart, high) and below
\* every slot above the ones ever bound in the cache, and none when that
\* range is empty.
ClearCallsWithin(cacheName, rangeStart, high) ==
    /\ Len(dev.calls) <= 1
    /\ rangeStart >= high => dev.calls = << >>
    /\ \A i \in DOMAIN dev.calls :
           /\ rangeStart <= dev.calls[i].slot
           /\ dev.calls[i].n > 0
           /\ dev.calls[i].slot + dev.calls[i].n <= high
           /\ \E b \in hist.everBound :
                  b[1] = cacheName /\ dev.calls[i].slot + dev.calls[i].n <= b[2] + 1
\* The state is the one an updateState call returned in.
PassReturned == last.name = "updateState"

PassSucceeded == PassReturned /\ ~tr.failed

\* The groups whose synchronizer the last pass invoked.
Synced == { tr.synced[i] : i \in DOMAIN tr.synced }

\* What a cached serial says is bound: nothing, for an empty serial and for
\* the serial a cache is constructed with.
BoundSerial(cached) == IF cached \in { kDirtySerial, kEmptySerial } THEN 0 ELSE cached

\* What a cached stride or offset says is bound: the value the cache is
\* constructed with says nothing was bound yet.
BoundUnsigned(cached) == IF cached = -1 THEN 0 ELSE cached

\* The cached serial, offset and size of a constant-buffer slot describe the
\* device slot.
ConstantBufferCacheMatches(stage, slot) ==
    /\ dev.constantBuffer[stage][slot].serial =
           BoundSerial(sm.mCurrentConstantBuffer[stage][slot])
    /\ dev.constantBuffer[stage][slot].first =
           sm.mCurrentConstantBufferOffset[stage][slot] \div 16
    /\ dev.constantBuffer[stage][slot].num =
           sm.mCurrentConstantBufferSize[stage][slot] \div 16

ViewCacheMatches ==
    \A stage \in Stages, slot \in TextureSlots :
        sm.mCurSRVs[stage].views[slot].view = dev.srv[stage][slot]

VertexInputCacheMatches ==
    /\ \A i \in AttribSlots :
           dev.vertexBuffer[i] = [ buffer |-> sm.mCurrentVertexBuffers[i],
                                   stride |-> BoundUnsigned(sm.mCurrentVertexStrides[i]),
                                   offset |-> BoundUnsigned(sm.mCurrentVertexOffsets[i]) ]
    /\ dev.indexBuffer = sm.mAppliedIB
    /\ dev.inputLayout = BoundSerial(sm.mCurrentInputLayout)
    /\ dev.topology = sm.mCurrentPrimitiveTopology

ShaderCacheMatches ==
    /\ dev.vertexShader = BoundSerial(sm.mAppliedVertexShader)
    /\ dev.geometryShader = BoundSerial(sm.mAppliedGeometryShader)
    /\ dev.pixelShader = BoundSerial(sm.mAppliedPixelShader)
    /\ dev.geometryConstantBuffer = BoundSerial(sm.mCurrentGeometryConstantBuffer)

\* C1: after every successful updateState pass each cached last-applied value
\* (constant buffers per slot and stage, shader resource views, vertex buffers,
\* index buffer, input layout, shaders, primitive topology) equals what the
\* most recent device call left bound.
C1_CachedEqualsBound ==
    PassSucceeded =>
        /\ \A stage \in Stages, slot \in CBSlots : ConstantBufferCacheMatches(stage, slot)
        /\ ViewCacheMatches
        /\ VertexInputCacheMatches
        /\ ShaderCacheMatches

C3_FixedOrder ==
    PassReturned =>
        /\ \A i, j \in DOMAIN tr.synced :
               i < j => GroupIndex(tr.synced[i]) < GroupIndex(tr.synced[j])
        /\ \A i, j \in DOMAIN dev.calls :
               (dev.calls[i].fn = "OMSetBlendState"
                    /\ dev.calls[j].fn = "OMSetDepthStencilState") => i < j

\* C3 witness: a later pass, after one notification marked both groups, binds
\* the blend state and the depth-stencil state.
C3_Witness ==
    /\ PassSucceeded
    /\ nPasses = 2
    /\ tr.atCall = { }
    /\ \E i, j \in DOMAIN dev.calls :
           dev.calls[i].fn = "OMSetBlendState" /\ dev.calls[j].fn = "OMSetDepthStencilState"

\* C4: when a pass returns success the internal dirty-bit set is empty.
C4_EmptyOnSuccess == PassSucceeded => sm.mInternalDirtyBits = { }

\* C4 witness: a successful pass that ran the shader synchronizer, whose
\* setDrawShaders had set the SHADERS bit again.
C4_Witness ==
    /\ PassSucceeded
    /\ \E i \in DOMAIN tr.live :
           tr.live[i].at = "setDrawShaders" /\ "SHADERS" \in tr.live[i].bits

\* C5, as stated: in every intermediate state between the snapshot-and-clear
\* and the return of a pass the live dirty-bit set is empty.
C5_LiveSetEmpty_Original ==
    PassReturned => \A i \in DOMAIN tr.live : tr.live[i].bits = { }

\* C5, amended: the live set is empty after the snapshot-and-clear and
\* whenever a synchronizer returns; inside the shader synchronizer only the
\* SHADERS bit can be set, by setDrawShaders, and it is cleared before return.
C5_LiveSetEmptyAtReturns ==
    PassReturned =>
        \A i \in DOMAIN tr.live :
            IF tr.live[i].at = "setDrawShaders"
            THEN tr.live[i].bits \subseteq { "SHADERS" }
            ELSE tr.live[i].bits = { }

\* C5 witness: a pass in which setDrawShaders set SHADERS and the live set
\* was empty again when the shader synchronizer and a later one returned.
C5_Witness ==
    /\ PassSucceeded
    /\ \E i, j, k \in DOMAIN tr.live :
           /\ i < j /\ j < k
           /\ tr.live[i].at = "setDrawShaders" /\ tr.live[i].bits = { "SHADERS" }
           /\ tr.live[j].at = "SHADERS" /\ tr.live[j].bits = { }
           /\ tr.live[k].bits = { }

\* C6: when a pass succeeds, every group that was dirty at the call or was
\* set by the steps before the snapshot had its synchronizer invoked exactly
\* once, and no synchronizer was invoked for a group outside the snapshot.
C6_EachSnapshotGroupOnce ==
    PassSucceeded =>
        /\ (tr.atCall \cup tr.afterPre) \subseteq Synced
        /\ Synced \subseteq tr.snapshot
        /\ Len(tr.synced) = Cardinality(Synced)

\* C6 witness: a successful pass whose steps before the snapshot set a group
\* that was clean at the call, and whose synchronizer then ran.
C6_Witness ==
    /\ PassSucceeded
    /\ tr.afterPre \ tr.atCall # { }
    /\ tr.afterPre \subseteq Synced

\* C7: a fixed-function notification whose logical value equals the cached
\* last-synced value leaves the dirty-bit set unchanged.
C7_SameValueLeavesBits ==
    (last.name = "syncState" /\ last.kind \in FFKinds /\ last.same) =>
        sm.mInternalDirtyBits = last.dirtyBefore

\* C7 witness: such a notification arrived with the dirty-bit set empty.
C7_Witness ==
    /\ last.name = "syncState"
    /\ last.kind \in FFKinds
    /\ last.same
    /\ last.dirtyBefore = { }
    /\ nPasses > 0

\* C8: the rasterizer-discard notification, with the flag away from its
\* last-synced value, sets both RASTERIZER_STATE and SHADERS.
C8_DiscardSetsRasterizerAndShaders ==
    (last.name = "syncState" /\ last.kind = "RASTERIZER_DISCARD_ENABLED" /\ ~last.same) =>
        { "RASTERIZER_STATE", "SHADERS" } \subseteq sm.mInternalDirtyBits

\* C8 witness: the flag was toggled while both groups were clean.
C8_Witness ==
    /\ last.name = "syncState"
    /\ last.kind = "RASTERIZER_DISCARD_ENABLED"
    /\ ~last.same
    /\ last.dirtyBefore = { }
    /\ sm.mInternalDirtyBits = { "RASTERIZER_STATE", "SHADERS" }

\* C9: the vertex-array-binding notification sets the vertex-buffers and
\* input-layout group, the current-value-attribs group with every attribute
\* slot dirty, and the index-buffer dirty flag, whatever the binding is.
C9_VertexArrayBindingSetsAll ==
    (last.name = "syncState" /\ last.kind = "VERTEX_ARRAY_BINDING") =>
        /\ { "VERTEX_BUFFERS_AND_INPUT_LAYOUT", "CURRENT_VALUE_ATTRIBS" }
               \subseteq sm.mInternalDirtyBits
        /\ sm.mDirtyCurrentValueAttribs = AttribSlots
        /\ sm.mIndexBufferIsDirty

\* C9 witness: the notification arrived for the binding already current,
\* with nothing dirty.
C9_Witness ==
    /\ last.name = "syncState"
    /\ last.kind = "VERTEX_ARRAY_BINDING"
    /\ last.same
    /\ last.dirtyBefore = { }
    /\ nPasses > 0
    /\ sm.mIndexBufferIsDirty

\* The groups the program-executable notification invalidates.
ProgramExecutableGroups ==
    { "SHADERS", "VERTEX_BUFFERS_AND_INPUT_LAYOUT", "RENDER_TARGET",
      "TEXTURE_AND_SAMPLER_STATE", "PROGRAM_UNIFORMS", "PROGRAM_UNIFORM_BUFFERS",
      "DRIVER_UNIFORMS" }

C11_ClearWithinUsedRange ==
    /\ Called("clearSRVs") =>
           ClearCallsWithin(last.args[1], last.args[2],
                            ClearHigh(last.args[3], last.before.sm.mCurSRVs[last.args[1]]))
    /\ Called("clearUAVs") =>
           ClearCallsWithin("Compute", last.args[1],
                            ClearHigh(last.args[2], last.before.sm.mCurComputeUAVs))

\* C11 witness: a clear of every slot, with only slot 0 ever bound in the
\* stage, issued one call for slot 0 alone.
C11_Witness ==
    /\ Called("clearSRVs")
    /\ last.args[2] = 0
    /\ last.args[3] = MaxTextureUnits
    /\ \A b \in hist.everBound : b[1] = last.args[1] => b[2] = 0
    /\ Len(dev.calls) = 1
    /\ dev.calls[1].slot = 0
    /\ dev.calls[1].n = 1

\* The resources of the views passed to setRenderTarget or setRenderTargets.
PassedResources ==
    { ViewResource(last.args[1][i]) : i \in { j \in DOMAIN last.args[1] : last.args[1][j] # 0 } }
        \cup (IF last.args[2] # 0 THEN { ViewResource(last.args[2]) } ELSE { })

\* The slot was left with no view, on the device and in the cache.
Unbound(stage, slot) ==
    dev.srv[stage][slot] = 0 /\ sm.mCurSRVs[stage].views[slot] = NullViewRecord

\* C12: setRenderTarget and setRenderTargets unbind, in every stage, every
\* slot whose recorded resource is the resource of a view they were passed,
\* and issue OMSetRenderTargets after that.
C12_ConflictingViewsUnbound ==
    (Called("setRenderTarget") \/ Called("setRenderTargets")) =>
        /\ \A stage \in Stages, slot \in TextureSlots :
               (/\ last.before.sm.mCurSRVs[stage].views[slot].view # 0
                /\ last.before.sm.mCurSRVs[stage].views[slot].resource \in PassedResources)
                   => Unbound(stage, slot)
        /\ dev.calls # << >>
        /\ dev.calls[Len(dev.calls)].fn = "OMSetRenderTargets"

\* The slot held a view of a resource that none of the passed views is of.
Unrelated(stage, slot) ==
    /\ last.before.sm.mCurSRVs[stage].views[slot].view # 0
    /\ last.before.sm.mCurSRVs[stage].views[slot].resource \notin PassedResources

\* No device call of the last operation names the slot, and its record and
\* binding are the ones before the operation.
Untouched(stage, slot) ==
    /\ \A i \in DOMAIN dev.calls :
           ~(/\ dev.calls[i].fn = StageCall(stage, "ShaderResources")
             /\ dev.calls[i].slot = slot)
    /\ sm.mCurSRVs[stage].views[slot] = last.before.sm.mCurSRVs[stage].views[slot]
    /\ dev.srv[stage][slot] = last.before.dev.srv[stage][slot]

\* The last operation unbound a slot of the stage.
UnboundSome(stage) ==
    \E slot \in TextureSlots :
        /\ last.before.sm.mCurSRVs[stage].views[slot].view # 0
        /\ sm.mCurSRVs[stage].views[slot].view = 0

\* C13 as stated: binding views as render targets leaves every slot that
\* holds a view of another resource untouched, and the highest-used marker of
\* its cache unchanged.
C13_UnrelatedSlotUntouched_Original ==
    (Called("setRenderTarget") \/ Called("setRenderTargets")) =>
        \A stage \in Stages, slot \in TextureSlots :
            Unrelated(stage, slot) =>
                /\ Untouched(stage, slot)
                /\ sm.mCurSRVs[stage].highestUsed
                       = last.before.sm.mCurSRVs[stage].highestUsed

\* C13 amended: binding views as render targets leaves every slot that holds
\* a view of another resource untouched; the highest-used marker of a cache
\* is unchanged when no slot of the cache was unbound and is never raised.
C13_UnrelatedSlotUntouched ==
    (Called("setRenderTarget") \/ Called("setRenderTargets")) =>
        /\ \A stage \in Stages, slot \in TextureSlots :
               Unrelated(stage, slot) => Untouched(stage, slot)
        /\ \A stage \in Stages :
               /\ sm.mCurSRVs[stage].highestUsed
                      <= last.before.sm.mCurSRVs[stage].highestUsed
               /\ ~UnboundSome(stage) =>
                      sm.mCurSRVs[stage].highestUsed
                          = last.before.sm.mCurSRVs[stage].highestUsed

\* C13 witness: a render-target bind unbound one slot of a stage and left the
\* other slot of that stage, which holds a view of another resource, bound.
C13_Witness ==
    /\ Called("setRenderTarget")
    /\ \E stage \in Stages, slot \in TextureSlots :
           /\ Unrelated(stage, slot)
           /\ dev.srv[stage][slot] # 0
           /\ UnboundSome(stage)

\* The view's mip range [MostDetailedMip, MostDetailedMip + MipLevels)
\* contains the mip level of the index and, for a 2D-array view, its slice
\* range contains the layer.
RangeContainsIndex(index, desc) ==
    /\ desc.MostDetailedMip <= index.mipIndex
    /\ (desc.MipLevels = UINT_MAX
            \/ index.mipIndex < desc.MostDetailedMip + desc.MipLevels)
    /\ desc.ViewDimension = "TEXTURE2DARRAY" =>
           /\ desc.FirstArraySlice <= index.layerIndex
           /\ index.layerIndex < desc.FirstArraySlice + desc.ArraySize

\* C14: syncFramebuffer with a texture attachment unbinds a view of the
\* attachment's resource only if the view's range contains the image index;
\* a view of any dimension whose range does not contain it stays bound.
C14_UnboundOnlyIfRangeContainsIndex ==
    (Called("syncFramebuffer") /\ last.args[1].type = "GL_TEXTURE") =>
        \A stage \in Stages, slot \in TextureSlots :
            LET record == last.before.sm.mCurSRVs[stage].views[slot]
            IN  (/\ record.view # 0
                 /\ record.resource = last.args[1].resource
                 /\ ~RangeContainsIndex(last.args[1].index, ViewDesc(record.view)))
                    => Untouched(stage, slot)

\* The used sampler range of the program an updateBuffer call was made with.
CallRange == UsedSamplerRange(last.args[2], last.args[1])

\* The last operation uploaded one image of the stage: the header followed by
\* the metadata of samplers [0, numSamplers).
Uploaded(stage, numSamplers) ==
    dev.uploads = << [ stage |-> stage, header |-> TRUE, samplers |-> numSamplers ] >>

\* The upload of an updateBuffer call is as decided by the stage's dirty flag
\* and the comparison of the program's range with the count.
UploadsIff(count) ==
    IF \/ last.before.sm.mShaderConstants.dirty[last.args[1]]
       \/ CallRange > count
    THEN Uploaded(last.args[1], CallRange)
    ELSE dev.uploads = << >>

\* C15 as stated: updateBuffer uploads the image iff the stage's dirty flag
\* is set or the program's used sampler range exceeds the range of the
\* previous updateBuffer call of the stage.
C15_UploadIffDirtyOrWider_Original ==
    Called("updateBuffer") => UploadsIff(last.before.hist.recorded[last.args[1]])

\* C15 amended: the count compared with is the previous call's range, or 0
\* when markDirty was called or a sampler's metadata changed since; an
\* updateBuffer call that returns success uploads iff the flag is set or the
\* range exceeds that count, and one that fails had to upload and uploads
\* nothing.
C15_UploadIffDirtyOrWider ==
    Called("updateBuffer") =>
        LET count == IF last.before.hist.zeroed[last.args[1]] THEN 0
                     ELSE last.before.hist.recorded[last.args[1]]
        IN  /\ ~last.failed => UploadsIff(count)
            /\ last.failed =>
                   /\ dev.uploads = << >>
                   /\ \/ last.before.sm.mShaderConstants.dirty[last.args[1]]
                      \/ CallRange > count
            /\ sm.mShaderConstants.numActiveSamplers[last.args[1]] = CallRange
            /\ ~sm.mShaderConstants.dirty[last.args[1]]

\* C15 witness: with a clean flag and the range of the previous call one
\* sampler narrower, updateBuffer uploaded the wider image.
C15_Witness ==
    /\ Called("updateBuffer")
    /\ ~last.before.sm.mShaderConstants.dirty[last.args[1]]
    /\ ~last.before.hist.zeroed[last.args[1]]
    /\ last.before.hist.recorded[last.args[1]] = CallRange - 1
    /\ CallRange > 1
    /\ Uploaded(last.args[1], CallRange)

\* The last operation issued the sampler bind of the slot and nothing else.
SamplerBound(stage, index) ==
    dev.calls = << Call(StageCall(stage, "Samplers"), index, 1) >>

\* What C19 says of a setSamplerState call on the slot (stage, index).
SamplerCallAsStated(stage, index, samplerState) ==
    /\ ~sm.mForceSetSamplerStates[stage][index]
    /\ hist.samplerCalls[stage][index] = 1 => SamplerBound(stage, index)
    /\ ~last.before.sm.mForceSetSamplerStates[stage][index] =>
           /\ IF samplerState # last.before.sm.mCurSamplerStates[stage][index]
              THEN SamplerBound(stage, index)
              ELSE dev.calls = << >>
           /\ sm.mCurSamplerStates[stage][index] = samplerState

\* C19 as stated: the forced-rebind flags are true after initialize and the
\* slot's flag is false after any setSamplerState; the first call on a slot
\* binds whatever the descriptor is, and a call on a slot whose flag is false
\* binds iff the descriptor differs from the cached one, which then equals the
\* one passed.
C19_ForcedRebindThenCompare_Original ==
    /\ last.name = "none" =>
           \A stage \in Stages, index \in TextureSlots :
               sm.mForceSetSamplerStates[stage][index]
    /\ Called("setSamplerState") =>
           SamplerCallAsStated(last.args[1], last.args[2], last.args[4])

\* C19 amended: what is stated holds of every setSamplerState call that
\* returns success, and such a call on a slot whose flag is true binds; a call
\* whose sampler-state lookup fails issues no call and leaves the flag and
\* the cached descriptor as they were, and it fails only where it had to bind.
C19_ForcedRebindThenCompare ==
    /\ last.name = "none" =>
           \A stage \in Stages, index \in TextureSlots :
               sm.mForceSetSamplerStates[stage][index]
    /\ (Called("setSamplerState") /\ ~last.failed) =>
           /\ SamplerCallAsStated(last.args[1], last.args[2], last.args[4])
           /\ last.before.sm.mForceSetSamplerStates[last.args[1]][last.args[2]] =>
                  /\ SamplerBound(last.args[1], last.args[2])
                  /\ sm.mCurSamplerStates[last.args[1]][last.args[2]] = last.args[4]
           /\ dev.sampler[last.args[1]][last.args[2]]
                  = sm.mCurSamplerStates[last.args[1]][last.args[2]]
    /\ (Called("setSamplerState") /\ last.failed) =>
           /\ dev.calls = << >>
           /\ sm = last.before.sm
           /\ \/ last.before.sm.mForceSetSamplerStates[last.args[1]][last.args[2]]
              \/ last.args[4] # last.before.sm.mCurSamplerStates[last.args[1]][last.args[2]]

\* C19 witness: the first setSamplerState on a slot bound a descriptor equal
\* to the cached one, and cleared the slot's flag.
C19_Witness ==
    /\ Called("setSamplerState")
    /\ ~last.failed
    /\ hist.samplerCalls[last.args[1]][last.args[2]] = 1
    /\ last.args[4] = last.before.sm.mCurSamplerStates[last.args[1]][last.args[2]]
    /\ SamplerBound(last.args[1], last.args[2])
    /\ ~sm.mForceSetSamplerStates[last.args[1]][last.args[2]]

\* The smallest and the largest slot of a set of slots that is not empty.
MinSlot(slots) == CHOOSE i \in slots : \A j \in slots : i <= j

MaxSlot(slots) == CHOOSE i \in slots : \A j \in slots : j <= i

\* applyVertexBufferChanges issued no call when no slot is dirty and else one
\* IASetVertexBuffers call covering the smallest contiguous range that
\* contains the slots, and left the dirty range empty.
FlushedExactly(slots) ==
    /\ IF slots = { } THEN dev.calls = << >>
       ELSE dev.calls = << Call("IASetVertexBuffers", MinSlot(slots),
                                MaxSlot(slots) - MinSlot(slots) + 1) >>
    /\ sm.mDirtyVertexBufferRange.low >= sm.mDirtyVertexBufferRange.high

\* A queueVertexBufferChange with an unchanged triple does not widen the range.
UnchangedTripleKeepsRange ==
    (/\ Called("queueVertexBufferChange")
     /\ last.args[2] = last.before.sm.mCurrentVertexBuffers[last.args[1]]
     /\ last.args[3] = last.before.sm.mCurrentVertexStrides[last.args[1]]
     /\ last.args[4] = last.before.sm.mCurrentVertexOffsets[last.args[1]])
        => sm.mDirtyVertexBufferRange = last.before.sm.mDirtyVertexBufferRange

Issued(fn) == \E i \in DOMAIN dev.calls : dev.calls[i].fn = fn

\* C16: a pass in which the logical blend state is the last-applied one
\* issues no blend bind, whether it is the first pass after construction or
\* follows a change of the draw framebuffer binding.
C16_UnchangedBlendIssuesNoBind ==
    (PassSucceeded /\ \A k \in BlendKinds : gl.ff[k] = tr.before.mCur[k])
        => ~Issued("OMSetBlendState")

\* C18: with the default framebuffer bound for drawing and its colour buffer
\* of zero width or height, an updateState pass in which no collaborator
\* fails returns no error, issues no device call and changes no cached
\* fixed-function state.
C18_ZeroSizeDefaultFramebufferIsNoOp ==
    (/\ PassReturned
     /\ gl.framebuffer = 0
     /\ gl.defaultFramebufferZeroSize
     /\ gl.failAt = "none")
        => /\ ~tr.failed
           /\ dev.calls = << >>
           /\ sm.mCur = tr.before.mCur

\* The group whose synchronizer makes the collaborator call that can fail;
\* "none" for the calls updateState makes before its loop.
SynchronizerOf(failPoint) ==
    CASE failPoint = "getRasterizerState" -> "RASTERIZER_STATE"
      [] failPoint = "getBlendState" -> "BLEND_STATE"
      [] failPoint = "getDepthStencilState" -> "DEPTH_STENCIL_STATE"
      [] failPoint = "triggerDrawCallProgramRecompilation" -> "SHADERS"
      [] OTHER -> "none"

\* The device call and the cache update of a group synchronized in the last
\* pass are in place.
GroupEffectKept(group) ==
    /\ group = "RENDER_TARGET" /\ ~(gl.framebuffer = 0 /\ gl.defaultFramebufferZeroSize) =>
           /\ Issued("OMSetRenderTargets")
           /\ dev.renderTarget.rtv = FramebufferRTV(gl.framebuffer)
    /\ group = "VIEWPORT_STATE" =>
           /\ Issued("RSSetViewports")
           /\ sm.mCur["VIEWPORT"] = gl.ff["VIEWPORT"]
    /\ group = "RASTERIZER_STATE" =>
           /\ Issued("RSSetState")
           /\ \A k \in RasterKinds : sm.mCur[k] = gl.ff[k] /\ dev.rasterizer.state[k] = gl.ff[k]
    /\ group = "BLEND_STATE" =>
           /\ Issued("OMSetBlendState")
           /\ \A k \in BlendKinds : sm.mCur[k] = gl.ff[k] /\ dev.blend.state[k] = gl.ff[k]
           /\ sm.mCurSampleMask = gl.sampleMask

OnePastHighestOccupied(cache) ==
    LET occupied == { i \in TextureSlots : cache.views[i].view # 0 }
    IN  IF occupied = { } THEN 0 ELSE MaxSlot(occupied) + 1

\* C23: after any sequence of view binds, unbinds and clears, highestUsed()
\* of each view cache is 0 when no slot holds a view and otherwise one more
\* than the largest index of a slot that holds one.
C23_HighestUsedIsOnePastHighestOccupied ==
    /\ \A stage \in Stages :
           sm.mCurSRVs[stage].highestUsed = OnePastHighestOccupied(sm.mCurSRVs[stage])
    /\ sm.mCurComputeUAVs.highestUsed = OnePastHighestOccupied(sm.mCurComputeUAVs)

\* C24: setShaderResource and setUnorderedAccessView issue a device call
\* only if the view recorded for the slot differs from the requested view:
\* a bind of the non-null view that the slot already records issues no call.
C24_SameViewIssuesNoCall ==
    /\ (/\ last.name = "setShaderResource"
        /\ last.args[3] # 0
        /\ last.before.sm.mCurSRVs[last.args[1]].views[last.args[2]].view
               = NativeSRV(last.args[3]))
           => dev.calls = << >>
    /\ (/\ last.name = "setUnorderedAccessView"
        /\ last.before.sm.mCurComputeUAVs.views[last.args[1]].view
               = NativeSRV(last.args[2]))
           => dev.calls = << >>

\* The fields of the depth-stencil state that an override in force replaces.
Overridden ==
    (IF sm.mCurDisableDepth.value THEN { "DEPTH_TEST_ENABLED", "DEPTH_MASK" } ELSE { })
        \cup (IF gl.ff["STENCIL_TEST_ENABLED"] = 0 \/ sm.mCurDisableStencil.value
               THEN { "STENCIL_TEST_ENABLED", "STENCIL_WRITEMASK_FRONT",
                      "STENCIL_WRITEMASK_BACK" }
               ELSE { })

\* C26: the depth-stencil state that syncDepthStencilState requests has the
\* stencil test off and both stencil write masks zero whenever the logical
\* stencil test is off or the disable-stencil override is set, has the depth
\* test and the depth write off whenever the disable-depth override is set,
\* and equals the logical state in every other field.
C26_RequestedDepthStencilState ==
    (last.name = "syncDepthStencilState" /\ ~last.failed) =>
        /\ Issued("OMSetDepthStencilState")
        /\ \A k \in DepthStencilKinds :
               dev.depthStencil.state[k] = IF k \in Overridden THEN 0 ELSE gl.ff[k]

\* C26 witness: a stencil-only framebuffer with the depth write enabled and
\* the stencil test disabled: the depth write and the stencil write masks
\* are overridden, the depth function is the logical one.
C26_Witness ==
    /\ last.name = "syncDepthStencilState"
    /\ ~last.failed
    /\ sm.mCurDisableDepth.value
    /\ gl.ff["DEPTH_MASK"] = 1
    /\ dev.depthStencil.state["DEPTH_MASK"] = 0
    /\ gl.ff["STENCIL_TEST_ENABLED"] = 0
    /\ gl.ff["STENCIL_WRITEMASK_FRONT"] = 1
    /\ dev.depthStencil.state["STENCIL_WRITEMASK_FRONT"] = 0

\* The groups that processing a pending framebuffer invalidation sets, for
\* the draw framebuffer and the derived flags it finds.
InvalidationGroups ==
    { "RENDER_TARGET", "SHADERS", "BLEND_STATE" }
        \cup (IF \/ ~sm.mCurDisableDepth.valid \/ ~sm.mCurDisableStencil.valid
                  \/ sm.mCurDisableDepth.value
                         # (~FramebufferHasDepth(gl.framebuffer)
                              /\ FramebufferHasStencil(gl.framebuffer))
                  \/ sm.mCurDisableStencil.value
                         # (FramebufferHasDepth(gl.framebuffer)
                              /\ ~FramebufferHasStencil(gl.framebuffer))
               THEN { "DEPTH_STENCIL_STATE" } ELSE { })
        \cup (IF sm.multiSample # (FramebufferSamples(gl.framebuffer) # 0)
               THEN { "RASTERIZER_STATE" } ELSE { })

\* C25: invalidateRenderTarget only sets the flag: no dirty bit, no device
\* call.  The next updateState clears the flag and, when it was set, sets
\* the render-target, shaders and blend groups, and the depth-stencil and
\* rasterizer groups when the derived flags change, before it takes the
\* snapshot (the groups stay in the live set when the pass fails before the
\* snapshot); when the flag was clear the derived flags are unchanged and
\* the render-target group is in the snapshot only if it was dirty already.
C25_InvalidationDeferredAndProcessedOnce ==
    [][ /\ nOps' = nOps + 1 =>
               /\ sm' = [ sm EXCEPT !.mRenderTargetIsDirty = TRUE ]
               /\ dev'.calls = << >>
        /\ nPasses' = nPasses + 1 =>
               /\ ~sm'.mRenderTargetIsDirty
               /\ sm.mRenderTargetIsDirty =>
                      /\ InvalidationGroups \subseteq
                             (IF tr'.failed /\ tr'.synced = << >>
                              THEN sm'.mInternalDirtyBits ELSE tr'.snapshot)
                      /\ sm'.mCurDisableDepth.valid /\ sm'.mCurDisableStencil.valid
                      /\ sm'.mCurDisableStencil.value
                             = (FramebufferHasDepth(gl.framebuffer)
                                  /\ ~FramebufferHasStencil(gl.framebuffer))
               /\ ~sm.mRenderTargetIsDirty =>
                      /\ sm'.mCurDisableDepth = sm.mCurDisableDepth
                      /\ sm'.mCurDisableStencil = sm.mCurDisableStencil
                      /\ sm'.multiSample = sm.multiSample
                      /\ "RENDER_TARGET" \in tr'.snapshot
                             => "RENDER_TARGET" \in sm.mInternalDirtyBits
      ]_vars

\* C25 witness: the draw framebuffer was bound twice before a draw, and the
\* pass synchronized the render target once and left the flag clear.
C25_Witness ==
    /\ PassReturned
    /\ nOps = 2
    /\ nPasses = 1
    /\ gl.framebuffer = 1
    /\ ~sm.mRenderTargetIsDirty
    /\ Cardinality({ i \in DOMAIN tr.synced : tr.synced[i] = "RENDER_TARGET" }) = 1
    /\ { "RENDER_TARGET", "SHADERS", "BLEND_STATE", "DEPTH_STENCIL_STATE",
         "RASTERIZER_STATE" } \subseteq tr.snapshot

\* C21: after a successful pass for an indexed draw that follows a change of
\* the applied index buffer by another caller than applyIndexBuffer (a helper
\* pass's setIndexBuffer, the instanced point-sprite path), the device index
\* buffer is the vertex array's translated one.  The draws of the point-sprite
\* path itself, which binds the quad's index buffer, are left out.
C21_IndexedDrawReappliesIndexBuffer ==
    (/\ PassSucceeded
     /\ tr.isDrawElements
     /\ tr.ibForeignAtCall
     /\ ~tr.pointSpriteIndexBufferApplied
     /\ ~(ProgramUsesInstancedPointSprites(World) /\ tr.mode = "GL_POINTS"))
        => dev.indexBuffer = [ buffer |-> IndexBufferOf(gl.vertexArray),
                               format |-> "R16_UINT", offset |-> 0 ]

\* The uniform blocks of a stage that syncUniformBuffers has a buffer for.
BoundBlocks(stage) ==
    { bufferIndex \in 0..(MaxUniformBlocks - 1) :
        /\ UniformBufferCache(gl.program, stage)[bufferIndex + 1] # -1
        /\ gl.uniformBuffer # 0 }

\* The (serial, offset, size) triple a cache records for a slot of a stage.
CachedTriple(object, stage, slot) ==
    << object.mCurrentConstantBuffer[stage][slot],
       object.mCurrentConstantBufferOffset[stage][slot],
       object.mCurrentConstantBufferSize[stage][slot] >>

RequestedTriple ==
    << ConstantBufferSerial(gl.uniformBuffer), UniformBufferOffset(gl.uniformBuffer),
       UniformBufferSize(gl.uniformBuffer) >>

\* C22: syncUniformBuffers skips the device bind of a uniform block exactly
\* when the cached triple of the device slot the block is applied to
\* (reserved slots + block index) equals the requested triple, and otherwise
\* binds and records the triple at that slot.
C22_SkipsExactlyWhenAppliedSlotMatches ==
    last.name = "syncUniformBuffers" =>
        \A stage \in Stages : \A bufferIndex \in BoundBlocks(stage) :
            LET appliedIndex == ReservedUniformBuffers + bufferIndex
                bound == \E i \in DOMAIN dev.calls :
                             dev.calls[i] = Call(StageCall(stage, "ConstantBuffers"),
                                                 appliedIndex, 1)
            IN  /\ bound <=> CachedTriple(last.before.sm, stage, appliedIndex)
                                 # RequestedTriple
                /\ CachedTriple(sm, stage, appliedIndex) = RequestedTriple

\* A viewport rectangle lies inside the bounds in force.
InsideBounds(rect, b) ==
    /\ b.minX <= rect.TopLeftX /\ rect.TopLeftX <= b.maxX
    /\ 0 <= rect.Width /\ rect.Width <= b.maxX - rect.TopLeftX
    /\ b.minY <= rect.TopLeftY /\ rect.TopLeftY <= b.maxY
    /\ 0 <= rect.Height /\ rect.Height <= b.maxY - rect.TopLeftY

\* C27: every viewport rectangle that syncViewport passes to the device lies
\* inside the viewport bounds in force, for every logical viewport, viewport
\* offset and framebuffer, a framebuffer without attachments included.
C27_ViewportInsideBounds ==
    last.name = "syncViewport" =>
        \A i \in DOMAIN dev.viewport.rects :
            InsideBounds(dev.viewport.rects[i], ViewportBoundsInForce(World))

\* The attributes, the semantic indices and the result of the last
\* feature-level 9_3 step.
SortedBefore == last.args[1]

SemanticsBefore == last.args[2]

SortedAfter == last.args[3].attributes

SemanticsAfter == last.args[3].semanticIndices

NotInstanced(attributes) == { i \in DOMAIN attributes : attributes[i].divisor = 0 }

\* C28: on feature level 9_3, after the step on the sorted attributes: if an
\* attribute has divisor 0, the attribute at position 0 has divisor 0; when
\* position 0 is instanced and an attribute is not, the step exchanges
\* position 0 with the first divisor-0 position in both lists, so the
\* pairing of attribute and semantic index and the set of attributes are
\* kept; the lists are unchanged when position 0 has divisor 0 or no
\* attribute has divisor 0.
C28_FirstAttributeNotInstanced ==
    last.name = "syncVertexBuffersAndInputLayout" =>
        LET first == MinSlot(NotInstanced(SortedBefore))
            unchanged == \/ NotInstanced(SortedBefore) = { }
                         \/ 1 \in NotInstanced(SortedBefore)
        IN  /\ NotInstanced(SortedBefore) # { } => SortedAfter[1].divisor = 0
            /\ unchanged =>
                   SortedAfter = SortedBefore /\ SemanticsAfter = SemanticsBefore
            /\ ~unchanged =>
                   /\ SortedAfter = Swap(SortedBefore, 1, first)
                   /\ SemanticsAfter = Swap(SemanticsBefore, 1, first)
            /\ { << SortedAfter[i], SemanticsAfter[i] >> : i \in DOMAIN SortedAfter }
                   = { << SortedBefore[i], SemanticsBefore[i] >> : i \in DOMAIN SortedBefore }
            /\ sm.mCurrentAttributes
                   = [ i \in DOMAIN SortedAfter |-> SortedAfter[i].location ]

\* C28 witness: three attributes, the first two instanced: positions 0 and 2
\* were exchanged in both lists.
C28_Witness ==
    /\ last.name = "syncVertexBuffersAndInputLayout"
    /\ Len(SortedBefore) = 3
    /\ NotInstanced(SortedBefore) = { 3 }
    /\ SortedAfter[1] = SortedBefore[3]
    /\ SortedAfter[3] = SortedBefore[1]
    /\ SemanticsAfter[1] = SemanticsBefore[3]
    /\ SemanticsAfter # SemanticsBefore

\* The device holds the bind of a group that its synchronizer derives from
\* the logical state, and the device call of the group was issued.
ReissuedFromLogicalState(group) ==
    IF group = "RENDER_TARGET"
    THEN /\ Issued("OMSetRenderTargets")
         /\ dev.renderTarget = [ rtv |-> FramebufferRTV(gl.framebuffer),
                                 dsv |-> FramebufferDSV(gl.framebuffer) ]
    ELSE IF group = "VIEWPORT_STATE"
    THEN /\ Issued("RSSetViewports")
         /\ dev.viewport.by = "sync"
         /\ dev.viewport.rects = << ViewportRectangle(World, 1) >>
    ELSE IF group = "SCISSOR_STATE"
    THEN /\ Issued("RSSetScissorRects")
         /\ dev.scissor = [ by |-> "sync", state |-> [ k \in ScissorKinds |-> gl.ff[k] ] ]
    ELSE IF group = "RASTERIZER_STATE"
    THEN /\ Issued("RSSetState")
         /\ dev.rasterizer.by = "sync"
         /\ dev.rasterizer.state = [ k \in RasterKinds |-> gl.ff[k] ]
    ELSE IF group = "BLEND_STATE"
    THEN /\ Issued("OMSetBlendState")
         /\ dev.blend.by = "sync"
         /\ dev.blend.state = [ k \in BlendKinds |-> gl.ff[k] ]
    ELSE /\ Issued("OMSetDepthStencilState")
         /\ dev.depthStencil = [ by |-> "sync", state |-> ModifiedDepthStencilState(World) ]

\* C29: the first successful updateState after a direct setter wrote the
\* device state of a group re-issues the bind of that group from the logical
\* state, though the logical state did not change.
C29_SetterGroupReissuedByNextSuccessfulPass ==
    PassSucceeded =>
        \A group \in tr.bypassedSinceSuccess : ReissuedFromLogicalState(group)

\* The last pass ran syncProgram and syncProgram returned success.
SyncProgramSucceeded ==
    /\ PassReturned
    /\ "SHADERS" \in Synced
    /\ ~tr.failed \/ tr.synced[Len(tr.synced)] # "SHADERS"

\* The shaders syncProgram is to apply: no pixel shader under rasterizer
\* discard, the stream-out shader while transform feedback is active and
\* unpaused.
ShadersApplied ==
    /\ dev.pixelShader = IF gl.ff["RASTERIZER_DISCARD_ENABLED"] # 0 THEN 0
                         ELSE PixelShaderSerial(gl.program)
    /\ dev.geometryShader = IF gl.transformFeedbackActive
                            THEN StreamOutShaderSerial(gl.program)
                            ELSE GeometryShaderSerial(gl.program, tr.mode)
    /\ sm.mAppliedPixelShader = dev.pixelShader
    /\ sm.mAppliedGeometryShader = dev.geometryShader

\* Since the pass before the last, rasterizer discard was changed away from
\* its last-synced value or the transform-feedback binding was changed.
DiscardOrTransformFeedbackChanged ==
    \/ /\ "RASTERIZER_DISCARD_ENABLED" \in tr.notified
       /\ gl.ff["RASTERIZER_DISCARD_ENABLED"] # tr.before.mCur["RASTERIZER_DISCARD_ENABLED"]
    \/ "TRANSFORM_FEEDBACK_BINDING" \in tr.notified

SyncedAt(group) ==
    IF group \in Synced THEN CHOOSE i \in DOMAIN tr.synced : tr.synced[i] = group ELSE 0

\* The driver constant buffers of both stages hold the constants of the
\* viewport the device has bound.
DriverConstantsOfBoundViewport ==
    \A stage \in Stages :
        /\ \E i \in DOMAIN dev.uploads : dev.uploads[i].stage = stage
        /\ dev.driverConstants[stage] # << >>
        /\ dev.driverConstants[stage].viewCoords =
               << gl.viewport.width, gl.viewport.height,
                  2 * gl.viewport.x + gl.viewport.width,
                  2 * gl.viewport.y + gl.viewport.height >>
        /\ dev.driverConstants[stage].depthRange = dev.viewport.state["DEPTH_RANGE"]
        /\ dev.driverConstants[stage].viewScale[2] =
               (IF sm.mCurPresentPathFastEnabled THEN 1 ELSE -1)
        /\ gl.is9_3 =>
               dev.driverConstants[stage].viewAdjustDivisor =
                   << AdjustViewport(World).Width, AdjustViewport(World).Height >>

\* The driver uniforms are drained with the viewport, after it, and upload
\* the constants of the viewport it bound.
DriverUniformsFollowViewport ==
    /\ "DRIVER_UNIFORMS" \in tr.snapshot
    /\ 0 < SyncedAt("VIEWPORT_STATE")
    /\ SyncedAt("VIEWPORT_STATE") < SyncedAt("DRIVER_UNIFORMS")
    /\ DriverConstantsOfBoundViewport

C32_SlotsAboveSamplerRangeUnbound ==
    (Called("applyTextures") /\ ~last.failed) =>
        \A i \in TextureSlots :
            i >= UsedSamplerRange(last.args[2], last.args[1]) =>
                /\ dev.srv[last.args[1]][i] = 0
                /\ sm.mCurSRVs[last.args[1]].views[i] = NullViewRecord

\* C33: after a successful pass that drained the driver-uniforms group, the
\* driver slot of the vertex and of the pixel stage holds the state
\* manager's driver constant buffer on the device, also when a helper bound
\* another buffer to that slot before the pass.
C33_DriverSlotsHoldDriverBuffers ==
    (PassSucceeded /\ "DRIVER_UNIFORMS" \in Synced) =>
        \A stage \in Stages :
            dev.constantBuffer[stage][SLOT_DRIVER].serial = DriverConstantBufferSerial(stage)

\* The last pass aborted while it drained a group.
AbortedWhileDraining == PassReturned /\ tr.failed /\ tr.synced # << >>

\* C34, as stated: a pass that aborts while draining a group leaves the
\* live dirty-bit set empty, and the updateState call that follows it at
\* once invokes the synchronizer of none of the groups the aborted pass had
\* in its snapshot and did not drain.
C34_AbortDiscardsUndrainedGroups_Original ==
    /\ AbortedWhileDraining => sm.mInternalDirtyBits = { }
    /\ PassReturned => Synced \cap tr.prevUndrained = { }

\* The groups that the steps of updateState before the snapshot can mark.
MarkedBeforeSnapshot ==
    { "PROGRAM_UNIFORMS", "BLEND_STATE", "VERTEX_BUFFERS_AND_INPUT_LAYOUT",
      "PRIMITIVE_TOPOLOGY", "RASTERIZER_STATE", "SHADERS" }

\* C34, amended: a pass that aborts while draining a group leaves the live
\* dirty-bit set empty; of the groups it did not drain, the updateState call
\* that follows at once synchronizes only groups that its own steps before
\* the snapshot mark again, and the blend state only when the sample mask
\* differs from the applied one.
C34_AbortDiscardsUndrainedGroups ==
    /\ AbortedWhileDraining => sm.mInternalDirtyBits = { }
    /\ PassReturned =>
           /\ Synced \cap tr.prevUndrained \subseteq MarkedBeforeSnapshot \cap tr.afterPre
           /\ "BLEND_STATE" \in Synced \cap tr.prevUndrained =>
                  gl.sampleMask # tr.before.mCurSampleMask

\* C34 witness: a pass aborted in the rasterizer group with the depth-stencil
\* state and the shaders undrained; the pass after it succeeded without
\* synchronizing either.
C34_Witness ==
    /\ PassSucceeded
    /\ { "RASTERIZER_STATE", "DEPTH_STENCIL_STATE", "SHADERS" } \subseteq tr.prevUndrained
    /\ tr.atCall = { }
    /\ Synced \cap { "RASTERIZER_STATE", "DEPTH_STENCIL_STATE", "SHADERS" } = { }

NarrowerThenWider(stage) ==
    LET calls == hist.sequence[stage]
    IN  /\ Len(calls) = SequenceLength
        /\ calls[2].range = calls[1].range - 1
        /\ calls[3].range = calls[1].range
        /\ \A i \in 1..SequenceLength : calls[i].clean

\* The count of a stage is as updateBuffer, markDirty and onSamplerChange
\* leave it.
CountRecordedAndReset ==
    /\ Called("updateBuffer") =>
           sm.mShaderConstants.numActiveSamplers[last.args[1]] = CallRange
    /\ Called("markDirty") =>
           \A stage \in Stages : sm.mShaderConstants.numActiveSamplers[stage] = 0
    /\ Called("setSamplerState") =>
           \A stage \in Stages :
               sm.mShaderConstants.baseLevel[stage]
                   # last.before.sm.mShaderConstants.baseLevel[stage]
                       => sm.mShaderConstants.numActiveSamplers[stage] = 0

\* C36 as stated: the count recorded by updateBuffer is the range of the call
\* whether or not it uploaded, markDirty and a metadata change reset it to 0,
\* and of three calls K, K-1, K with clean flags the first and the third
\* upload.
C36_CountOfMostRecentCall_Original ==
    /\ CountRecordedAndReset
    /\ \A stage \in Stages :
           NarrowerThenWider(stage) =>
               /\ hist.sequence[stage][1].uploaded
               /\ hist.sequence[stage][3].uploaded

\* C36, amended: the count is recorded and reset as stated; of three calls
\* K, K-1, K with clean flags the second uploads nothing unless the count
\* was reset before it, the third uploads unless mapResource fails, and the
\* first uploads only if the count it found was below K.
C36_CountOfMostRecentCall ==
    /\ CountRecordedAndReset
    /\ \A stage \in Stages :
           NarrowerThenWider(stage) =>
               LET calls == hist.sequence[stage]
               IN  /\ calls[3].uploaded <=> ~calls[3].failed
                   /\ ~calls[2].zeroed => ~calls[2].uploaded /\ ~calls[2].failed
                   /\ calls[1].uploaded <=>
                          calls[1].count < calls[1].range /\ ~calls[1].failed

\* C36 witness: three calls 2, 1, 2 of the fragment stage with clean flags
\* and no reset in between; the second uploaded nothing and the third
\* uploaded.
C36_Witness ==
    /\ NarrowerThenWider("Fragment")
    /\ Called("updateBuffer")
    /\ ~hist.sequence["Fragment"][2].zeroed
    /\ ~hist.sequence["Fragment"][2].uploaded
    /\ hist.sequence["Fragment"][3].uploaded
    /\ Uploaded("Fragment", 2)

\* The last pass issued the sampler bind of pixel slot 0.
PixelSamplerZeroBound ==
    \E i \in DOMAIN dev.calls : dev.calls[i] = Call("PSSetSamplers", 0, 1)

\* setSimplePixelTextureAndSampler binds the sampler of pixel slot 0, leaves
\* its recorded descriptor alone, arms the forced-rebind flag and marks the
\* textures/samplers group.
HelperSamplerBound ==
    Called("setSimplePixelTextureAndSampler") =>
        /\ PixelSamplerZeroBound
        /\ dev.sampler["Fragment"][0] = last.args[2]
        /\ sm.mCurSamplerStates["Fragment"][0]
               = last.before.sm.mCurSamplerStates["Fragment"][0]
        /\ sm.mForceSetSamplerStates["Fragment"][0]
        /\ "TEXTURE_AND_SAMPLER_STATE" \in sm.mInternalDirtyBits

\* The pass is the first one after a call of setSimplePixelTextureAndSampler.
FirstPassAfterHelper ==
    PassReturned /\ "TEXTURE_AND_SAMPLER_STATE" \in tr.bypassedSincePass

ActiveAttribs == ActiveAttribLocationsMask(gl.program)

\* A pass leaves the dirty marks of the attributes alone, but that its
\* current-value synchronizer clears exactly the marks of the attributes that
\* were dirty and are active in the current program.
ClearsDirtyActiveAttribs ==
    PassReturned =>
        sm.mDirtyCurrentValueAttribs =
            IF "CURRENT_VALUE_ATTRIBS" \in Synced
            THEN tr.before.dirtyCurrentValueAttribs \ ActiveAttribs
            ELSE tr.before.dirtyCurrentValueAttribs

C39_OverrideFlagsAssigned ==
    /\ (PassReturned /\ "DEPTH_STENCIL_STATE" \in Synced) =>
           /\ sm.mCurDisableDepth =
                  [ valid |-> TRUE,
                    value |-> /\ ~FramebufferHasDepth(gl.framebuffer)
                              /\ FramebufferHasStencil(gl.framebuffer) ]
           /\ sm.mCurDisableStencil =
                  [ valid |-> TRUE,
                    value |-> /\ FramebufferHasDepth(gl.framebuffer)
                              /\ ~FramebufferHasStencil(gl.framebuffer) ]
    /\ ~(sm.mCurDisableDepth.value /\ sm.mCurDisableStencil.value)
    /\ sm.mCurDisableDepth.valid <=> sm.mCurDisableStencil.valid

\* C39 witness: the second pass of a run, on a stencil-only framebuffer, ran
\* the depth-stencil synchronizer with the depth override set.
C39_Witness ==
    /\ PassSucceeded
    /\ "DEPTH_STENCIL_STATE" \in Synced
    /\ gl.framebuffer = 2
    /\ sm.mCurDisableDepth.value
    /\ nPasses = MaxPasses

\* The queries that the last operation paused, and those it resumed.
PausedQueries ==
    { dev.calls[i].slot : i \in { j \in DOMAIN dev.calls : dev.calls[j].fn = "Query11::pause" } }

ResumedQueries ==
    { dev.calls[i].slot : i \in { j \in DOMAIN dev.calls : dev.calls[j].fn = "Query11::resume" } }

\* The active queries of the current context over the tracked types.
ActiveQueries == { gl.activeQuery[t] : t \in TrackedQueryTypes } \ { 0 }

\* C40: onMakeCurrent pauses every query tracked before the call before it
\* resumes any query of the new context; when it succeeds, every previously
\* tracked query was paused once, every active query of the new context over
\* the five tracked types was resumed once, and the tracked set is exactly
\* the set of those active queries.
C40_TrackedQueriesOfNewContext ==
    Called("onMakeCurrent") =>
        /\ \A i, j \in DOMAIN dev.calls :
               (dev.calls[i].fn = "Query11::pause" /\ dev.calls[j].fn = "Query11::resume")
                   => i < j
        /\ ResumedQueries # { } => PausedQueries = last.before.sm.mCurrentQueries
        /\ ~last.failed =>
               /\ PausedQueries = last.before.sm.mCurrentQueries
               /\ ResumedQueries = ActiveQueries
               /\ Len(dev.calls) = Cardinality(PausedQueries) + Cardinality(ResumedQueries)
               /\ sm.mCurrentQueries = ActiveQueries

\* C40 witness: two queries of the previous context were tracked, one of
\* them is active in the new context with another one; the call paused the
\* two and tracks the two of the new context.
C40_Witness ==
    /\ Called("onMakeCurrent")
    /\ ~last.failed
    /\ last.before.sm.mCurrentQueries = { 1, 2 }
    /\ sm.mCurrentQueries = { 2, 3 }
    /\ PausedQueries = { 1, 2 }
    /\ ResumedQueries = { 2, 3 }

====
